---- MODULE Spec2Model ----
(***************************************************************************)
(* Model of the story generation backend: the scene text parser and count  *)
(* adjustment (src/api/openai.ts), the image prompt builder                *)
(* (api/imageGeneration), and the story / scene controllers with their     *)
(* in-memory stores and the HTTP routes that drive them.                   *)
(*                                                                         *)
(* Strings are sequences of tokens [k, v, n]: k is the kind of the token   *)
(* (for a literal of the source: its text), v a number carried by it, n    *)
(* the number of characters it stands for.                                 *)
(***************************************************************************)
EXTENDS Naturals, Integers, Sequences, FiniteSets, TLC

VARIABLES
  callIn,     \* the arguments of one call of generateStoryScenes or generateImage
  callOut,    \* its result
  stories,    \* storyController's array `stories`: the ids of the stories in it
  storyHeap,  \* every Story object created so far; a story's id is its index
  scenes,     \* sceneController's array `scenes`: the ids of the scenes in it
  sceneHeap,  \* every Scene object created so far; a scene's id is its index
  reqs,       \* the requests suspended at an await, by slot
  lastCall,   \* the call of the image API made in the last step, if any
  lastDone,   \* the controller call that ended in the last step, if any
  lastResponse, \* the answer of the image API handled in the last step, if any
  fuel        \* how many more reads, edits, regenerations and failing image
              \* calls (for the visual samples: answers of the image API) the
              \* model explores

pureVars == <<callIn, callOut>>

storeVars == <<stories, storyHeap, scenes, sceneHeap>>

serverVars == <<stories, storyHeap, scenes, sceneHeap, reqs, lastCall, lastDone, lastResponse, fuel>>

vars == <<callIn, callOut, stories, storyHeap, scenes, sceneHeap, reqs, lastCall, lastDone,
          lastResponse, fuel>>

\* the outcome of a call: pending, returned with a value, or rejected (thrown)
Pending == [status |-> "pending", value |-> <<>>]

Returned(v) == [status |-> "returned", value |-> v]

Rejected == [status |-> "rejected", value |-> <<>>]

\* ------------------------------------------------------------------ strings

Tok(k, v, n) == [k |-> k, v |-> v, n |-> n]

Lit(text, n) == <<Tok(text, 0, n)>>

NL == Tok("nl", 0, 1)

SP == Tok("sp", 0, 1)

Word(v, n) == Tok("w", v, n)

Digits(i) == IF i < 10 THEN 1 ELSE IF i < 100 THEN 2 ELSE 3

\* the text "Cena i" (a default title, and a scene marker without its colon)
CenaN(i) == Tok("Cena N", i, 5 + Digits(i))

\* the text "Cena i:" (a scene marker)
CenaNColon(i) == Tok("Cena N:", i, 6 + Digits(i))

LabelTitulo == Tok("Título:", 0, 7)

LabelDescricao == Tok("Descrição:", 0, 10)

LabelNarracao == Tok("Narração:", 0, 9)

LabelDialogo == Tok("Diálogo:", 0, 8)

IsWs(t) == t.k \in {"nl", "sp"}

RECURSIVE StrLen(_)
\* String.prototype.length
StrLen(s) == IF s = <<>> THEN 0 ELSE Head(s).n + StrLen(Tail(s))

RECURSIVE TrimStart(_)
TrimStart(s) == IF s # <<>> /\ IsWs(Head(s)) THEN TrimStart(Tail(s)) ELSE s

RECURSIVE TrimEnd(_)
TrimEnd(s) ==
  IF s # <<>> /\ IsWs(s[Len(s)]) THEN TrimEnd(SubSeq(s, 1, Len(s) - 1)) ELSE s

\* String.prototype.trim
Trim(s) == TrimEnd(TrimStart(s))

RECURSIVE Slice(_, _)
\* String.prototype.slice(0, m) and substring(0, m): the first m characters;
\* a token cut in the middle is no longer the token it was
Slice(s, m) ==
  IF s = <<>> \/ m = 0 THEN <<>>
  ELSE IF Head(s).n <= m THEN <<Head(s)>> \o Slice(Tail(s), m - Head(s).n)
  ELSE <<Tok("cut", 0, m)>>

\* the first index i >= from with P(s[i]), or Len(s) + 1
FirstFrom(s, from, P(_)) ==
  IF \E i \in from..Len(s) : P(s[i])
  THEN CHOOSE i \in from..Len(s) : P(s[i]) /\ \A j \in from..(i - 1) : ~P(s[j])
  ELSE Len(s) + 1

\* String.prototype.split on the tokens that satisfy Sep: the pieces between them
SplitOn(s, Sep(_)) ==
  LET idx == {i \in 1..Len(s) : Sep(s[i])}
      m   == Cardinality(idx)
      pos(j) == IF j = 0 THEN 0
                ELSE IF j = m + 1 THEN Len(s) + 1
                ELSE CHOOSE i \in idx : Cardinality({q \in idx : q <= i}) = j
  IN [j \in 1..(m + 1) |-> SubSeq(s, pos(j - 1) + 1, pos(j) - 1)]

\* ------------------------------------------------------------------ openai.ts

MinScenes == 3

MaxScenes == 15

Min(a, b) == IF a < b THEN a ELSE b

Max(a, b) == IF a > b THEN a ELSE b

SceneDraft(t, d, n, g) == [title |-> t, description |-> d, narration |-> n, dialogue |-> g]

IsSceneMarker(t) == t.k = "Cena N:"

\* /Título\s*:\s*(.*?)(?:\r?\n|$)/i, group 1; <<>> when there is no match
titleMatch(block) ==
  LET p == FirstFrom(block, 1, LAMBDA t : t.k = "Título:")
      a == FirstFrom(block, p + 1, LAMBDA t : ~IsWs(t))
      b == FirstFrom(block, a, LAMBDA t : t.k = "nl")
  IN IF p > Len(block) THEN <<>> ELSE SubSeq(block, a, b - 1)

\* /Descrição\s*:\s*([\s\S]*?)(?=Narração\s*:|Diálogo\s*:|$)/i, group 1
descMatch(block) ==
  LET p == FirstFrom(block, 1, LAMBDA t : t.k = "Descrição:")
      a == FirstFrom(block, p + 1, LAMBDA t : ~IsWs(t))
      b == FirstFrom(block, a, LAMBDA t : t.k \in {"Narração:", "Diálogo:"})
  IN IF p > Len(block) THEN <<>> ELSE SubSeq(block, a, b - 1)

\* /Narração\s*:\s*([\s\S]*?)(?=Diálogo\s*:|$)/i, group 1
narrMatch(block) ==
  LET p == FirstFrom(block, 1, LAMBDA t : t.k = "Narração:")
      a == FirstFrom(block, p + 1, LAMBDA t : ~IsWs(t))
      b == FirstFrom(block, a, LAMBDA t : t.k = "Diálogo:")
  IN IF p > Len(block) THEN <<>> ELSE SubSeq(block, a, b - 1)

\* /Diálogo\s*:\s*([\s\S]*?)$/i, group 1
diagMatch(block) ==
  LET p == FirstFrom(block, 1, LAMBDA t : t.k = "Diálogo:")
      a == FirstFrom(block, p + 1, LAMBDA t : ~IsWs(t))
  IN IF p > Len(block) THEN <<>> ELSE SubSeq(block, a, Len(block))

\* processScenes, first strategy: split on "Cena X:" and match the fields
blockScenes(content) ==
  LET sceneBlocks == SplitOn(content, IsSceneMarker)
      draft(i) ==
        LET block == Trim(sceneBlocks[i + 1])
        IN SceneDraft(IF titleMatch(block) # <<>> THEN Trim(titleMatch(block))
                                                   ELSE <<CenaN(i)>>,
                      Trim(descMatch(block)),
                      Trim(narrMatch(block)),
                      Trim(diagMatch(block)))
  IN [i \in 1..(Len(sceneBlocks) - 1) |-> draft(i)]

\* the line loop's variables: scenes, currentScene (<<>> for null), currentField
LineState(parsed, currentScene, currentField) ==
  [scenes |-> parsed, currentScene |-> currentScene, currentField |-> currentField]

\* an append that joins field and line without the separator
appendLineNoSeparator(field, sep, line) == field \o line

\* `${field}\n${line}` or, for the title, `${field} ${line}`
appendLine(field, sep, line) == IF field # <<>> THEN field \o <<sep>> \o line ELSE line

\* one iteration of the loop over the lines (openai.ts 159-210)
lineStep(st, rawLine) ==
  LET line  == Trim(rawLine)
      cur   == st.currentScene[1]
      value == Trim(Tail(line))
  IN IF Len(line) = 1 /\ line[1].k \in {"Cena N:", "Cena N"}
     THEN LineState(st.scenes \o st.currentScene,
                    <<SceneDraft(<<CenaN(line[1].v)>>, <<>>, <<>>, <<>>)>>,
                    "null")
     ELSE IF st.currentScene = <<>> THEN st
     ELSE IF line # <<>> /\ line[1].k = "Título:"
     THEN LineState(st.scenes,
                    <<IF value # <<>> THEN [cur EXCEPT !.title = value] ELSE cur>>,
                    "title")
     ELSE IF line # <<>> /\ line[1].k = "Descrição:"
     THEN LineState(st.scenes,
                    <<IF value # <<>> THEN [cur EXCEPT !.description = value] ELSE cur>>,
                    "description")
     ELSE IF line # <<>> /\ line[1].k = "Narração:"
     THEN LineState(st.scenes,
                    <<IF value # <<>> THEN [cur EXCEPT !.narration = value] ELSE cur>>,
                    "narration")
     ELSE IF line # <<>> /\ line[1].k = "Diálogo:"
     THEN LineState(st.scenes,
                    <<IF value # <<>> THEN [cur EXCEPT !.dialogue = value] ELSE cur>>,
                    "dialogue")
     ELSE IF st.currentField # "null" /\ line # <<>>
     THEN LineState(st.scenes,
                    <<CASE st.currentField = "title" ->
                             [cur EXCEPT !.title = appendLine(cur.title, SP, line)]
                        [] st.currentField = "description" ->
                             [cur EXCEPT !.description = appendLine(cur.description, NL, line)]
                        [] st.currentField = "narration" ->
                             [cur EXCEPT !.narration = appendLine(cur.narration, NL, line)]
                        [] OTHER ->
                             [cur EXCEPT !.dialogue = appendLine(cur.dialogue, NL, line)]>>,
                    st.currentField)
     ELSE st

RECURSIVE lineLoop(_, _, _)
lineLoop(st, lines, i) ==
  IF i > Len(lines) THEN st ELSE lineLoop(lineStep(st, lines[i]), lines, i + 1)

\* processScenes, second strategy: the line by line scan
lineScenes(content) ==
  LET lines == SplitOn(content, LAMBDA t : t.k = "nl")
      st    == lineLoop(LineState(<<>>, <<>>, "null"), lines, 1)
  IN st.scenes \o st.currentScene

\* default scenes that stop one short of numScenes
defaultScenesOneShort(numScenes, storyProposal) ==
  [i \in 1..(numScenes - 1) |->
     SceneDraft(<<CenaN(i)>>, Lit("Parte ", 6), Lit("Cena sem conteúdo específico.", 29),
                <<>>)]

\* processScenes, third strategy: numScenes default scenes
defaultScenes(numScenes, storyProposal) ==
  [i \in 1..numScenes |->
     SceneDraft(<<CenaN(i)>>,
                <<Tok("Parte ", 0, 6), Tok("num", i, Digits(i)),
                  Tok(" da história sobre \"", 0, 20)>>
                  \o Slice(storyProposal, 30) \o Lit("...\"", 4),
                Lit("Cena sem conteúdo específico.", 29),
                <<>>)]

\* a processScenes that scans the lines before it splits the blocks
processScenesLinesFirst(content, numScenes, storyProposal) ==
  IF lineScenes(content) # <<>> THEN lineScenes(content)
  ELSE IF blockScenes(content) # <<>> THEN blockScenes(content)
  ELSE defaultScenes(numScenes, storyProposal)

processScenes(content, numScenes, storyProposal) ==
  IF blockScenes(content) # <<>> THEN blockScenes(content)
  ELSE IF lineScenes(content) # <<>> THEN lineScenes(content)
  ELSE defaultScenes(numScenes, storyProposal)

\* the scene generateScenes pushes at index i (0-based) when too few were processed
fillerScene(i, storyProposal) ==
  SceneDraft(<<CenaN(i + 1)>>,
             Lit("Continuação da história em ", 27) \o Slice(storyProposal, 50)
               \o Lit("...", 3),
             Lit("A história continua...", 22),
             <<>>)

\* the for loop of generateScenes (openai.ts 104-113): fill up to actualNumScenes
fillScenes(processedScenes, actualNumScenes, storyProposal) ==
  processedScenes
    \o [j \in 1..(actualNumScenes - Len(processedScenes)) |->
          fillerScene(Len(processedScenes) + j - 1, storyProposal)]

\* a generateScenes that returns what processScenes found, whatever its count
generateScenesUnadjusted(content, storyProposal, numScenes) ==
  processScenes(content, Min(Max(numScenes, MinScenes), MaxScenes), storyProposal)

\* a generateScenes that cuts the first scenes, not the last, when there are too many
generateScenesKeepLast(content, storyProposal, numScenes) ==
  LET actualNumScenes == Min(Max(numScenes, MinScenes), MaxScenes)
      processedScenes == processScenes(content, actualNumScenes, storyProposal)
      k == Len(processedScenes)
  IN IF k < actualNumScenes
     THEN fillScenes(processedScenes, actualNumScenes, storyProposal)
     ELSE SubSeq(processedScenes, k - actualNumScenes + 1, k)

\* generateScenes after extractContent: parse, then fill up or cut (openai.ts 64-120)
generateScenes(content, storyProposal, numScenes) ==
  LET actualNumScenes == Min(Max(numScenes, MinScenes), MaxScenes)
      processedScenes == processScenes(content, actualNumScenes, storyProposal)
      k == Len(processedScenes)
  IN IF k < actualNumScenes
     THEN fillScenes(processedScenes, actualNumScenes, storyProposal)
     ELSE SubSeq(processedScenes, 1, actualNumScenes)

\* ---------------------------------------------------------- storyController.ts

RECURSIVE padScenesNoPlaceholder(_, _)
\* a padding loop that leaves description and narration empty without a last scene
padScenesNoPlaceholder(adjustedScenes, numScenes) ==
  IF Len(adjustedScenes) >= numScenes THEN adjustedScenes
  ELSE LET lastScene == adjustedScenes[Len(adjustedScenes)]
           has == adjustedScenes # <<>>
           newScene ==
             SceneDraft(<<CenaN(Len(adjustedScenes) + 1)>>,
                        IF has THEN Lit("Continuação: ", 13) \o lastScene.description
                               ELSE <<>>,
                        IF has THEN lastScene.narration ELSE <<>>,
                        IF has THEN lastScene.dialogue ELSE <<>>)
       IN padScenesNoPlaceholder(Append(adjustedScenes, newScene), numScenes)

RECURSIVE padScenes(_, _)
\* the while loop of generateStoryScenes (storyController.ts 207-216)
padScenes(adjustedScenes, numScenes) ==
  IF Len(adjustedScenes) >= numScenes THEN adjustedScenes
  ELSE LET lastScene == adjustedScenes[Len(adjustedScenes)]
           has == adjustedScenes # <<>>
           newScene ==
             SceneDraft(<<CenaN(Len(adjustedScenes) + 1)>>,
                        IF has THEN Lit("Continuação: ", 13) \o lastScene.description
                               ELSE Lit("Nova cena", 9),
                        IF has THEN lastScene.narration ELSE Lit("Narração da cena", 16),
                        IF has THEN lastScene.dialogue ELSE <<>>)
       IN padScenes(Append(adjustedScenes, newScene), numScenes)

\* the count adjustment of generateStoryScenes (storyController.ts 201-222)
adjustScenes(generatedScenes, numScenes) ==
  IF Len(generatedScenes) < numScenes THEN padScenes(generatedScenes, numScenes)
  ELSE IF Len(generatedScenes) > numScenes THEN SubSeq(generatedScenes, 1, numScenes)
  ELSE generatedScenes

\* ---------------------------------------------------------- imageGeneration

MaxPromptLen == 1000

Placeholder == Lit("/images/placeholder.jpg", 23)

\* a URL the image API returned; v tells the URLs of the model apart
Url(v) == <<Tok("http", v, 60)>>

CreatePrefix == Lit("Create an image based on this description: ", 43)

ConsistencyInstruction ==
  Lit("Mantenha a aparência consistente dos personagens com as cenas anteriores. ", 74)

SampleMarker == Tok("Ilustração no estilo ", 0, 21)

\* ` Esta é a cena ${order + 1} de uma sequência contínua. ...`, as the custom
\* prompt path words it (line 58)
SequenceCustom(order) ==
  <<Tok(" Esta é a cena ", 0, 15), Tok("num", order + 1, Digits(order + 1)),
    Tok(" de uma sequência contínua. Mantenha os personagens visualmente idênticos às cenas anteriores.", 0, 94)>>

\* the same instruction as the scene paths word it (lines 87 and 138)
SequenceScene(order) ==
  <<Tok(" Esta é a cena ", 0, 15), Tok("num", order + 1, Digits(order + 1)),
    Tok(" de uma sequência contínua. Mantenha os mesmos personagens, com a mesma aparência física, roupas e cores das cenas anteriores.", 0, 126)>>

\* the lower-case spelling of the upper-case and capitalised words the model uses
lowerCaseOf(k) ==
  CASE k \in {"REALISTA", "Realista"}   -> "realista"
    [] k = "FOTORREALISTA"              -> "fotorrealista"
    [] k \in {"AQUARELA", "Aquarela"}   -> "aquarela"
    [] k \in {"CARTOON", "Cartoon"}     -> "cartoon"
    [] k = "ANIME"                      -> "anime"
    [] k \in {"ÓLEO", "Óleo"}           -> "óleo"
    [] k = "PASTEL"                     -> "pastel"
    [] k \in {"PIXELART", "PixelArt"}   -> "pixelart"
    [] k = "PINTURA"                    -> "pintura"
    [] k = "PHOTOREALISTIC"             -> "photorealistic"
    [] k \in {"CONSTRUCTOR", "Constructor"} -> "constructor"
    [] k = "toString"                   -> "tostring"
    [] OTHER                            -> k

\* String.prototype.toLowerCase on the spellings the model uses
toLowerCase(s) == [i \in 1..Len(s) |-> [s[i] EXCEPT !.k = lowerCaseOf(@)]]

\* the own properties of the object literal styleMap (lines 225-235)
styleMapKeys ==
  {"realista", "fotorrealista", "aquarela", "cartoon", "anime", "óleo", "pastel",
   "pixelart", "pintura"}

styleMap(key) ==
  CASE key = "realista"      -> Lit("photorealistic", 14)
    [] key = "fotorrealista" -> Lit("hyper-realistic", 15)
    [] key = "aquarela"      -> Lit("watercolor painting", 19)
    [] key = "cartoon"       -> Lit("cartoon", 7)
    [] key = "anime"         -> Lit("anime style", 11)
    [] key = "óleo"          -> Lit("oil painting", 12)
    [] key = "pastel"        -> Lit("pastel drawing", 14)
    [] key = "pixelart"      -> Lit("pixel art", 9)
    [] OTHER                 -> Lit("painting", 8)

\* styleMap is an object literal, so styleMap[key] also finds the properties it
\* inherits from Object.prototype; these are the ones with a lower-case name
inheritedKeys == {"constructor", "__proto__"}

\* what they hold: the function Object and the object Object.prototype, which
\* are not strings; n is the length of their conversion to a string,
\* "function Object() { [native code] }" and "[object Object]"
objectPrototype(key) ==
  IF key = "constructor" THEN <<Tok("Object", 0, 35)>>
  ELSE <<Tok("Object.prototype", 0, 15)>>

\* the value is a string
IsString(value) == \A i \in 1..Len(value) : value[i].k \notin {"Object", "Object.prototype"}

\* `styleMap[lowerStyle] ?? style` (line 238)
translateStyleToEnglish(style) ==
  LET lowerStyle == toLowerCase(style)
  IN IF style = <<>> THEN Lit("realistic", 9)
     ELSE IF Len(lowerStyle) = 1 /\ lowerStyle[1].k \in styleMapKeys
          THEN styleMap(lowerStyle[1].k)
     ELSE IF Len(lowerStyle) = 1 /\ lowerStyle[1].k \in inheritedKeys
          THEN objectPrototype(lowerStyle[1].k)
     ELSE style

\* a call of translateStyleToEnglish with any value: on a truthy value that is
\* not a string, style.toLowerCase is not a function and the call throws (line 237)
translateCall(style) ==
  IF IsString(style) THEN Returned(translateStyleToEnglish(style)) ELSE Rejected

\* a token whose text begins with white space
StartsWs(t) == IsWs(t) \/ t.k = " mostrando: "

\* prompt.match(/estilo\s+([^\s,]+)/i)?.[1], <<>> when there is no match: the
\* text after the marker and any white space, up to the next white space
styleMatch(prompt) ==
  LET p == FirstFrom(prompt, 1, LAMBDA t : t.k = SampleMarker.k)
      a == FirstFrom(prompt, p + 1, LAMBDA t : ~IsWs(t))
      b == FirstFrom(prompt, a, StartsWs)
  IN IF p > Len(prompt) \/ a > Len(prompt) THEN <<>>
     ELSE IF prompt[a].k = " mostrando: " THEN Lit("mostrando:", 10)
     ELSE SubSeq(prompt, a, b - 1)

\* the prompt generateStyleSample sends (lines 187-194)
styleSamplePrompt(prompt, style) ==
  LET requestedStyle == IF styleMatch(prompt) # <<>> THEN styleMatch(prompt) ELSE style
  IN translateStyleToEnglish(requestedStyle) \o Lit(" style image with people", 24)

\* the scene argument: <<>> for null or undefined, <<scene>> for an object
sceneOrderPositive(scene) == scene # <<>> /\ scene[1].order > 0

\* `${translatedStyle} ${finalPrompt}` when a style is given (lines 91-94, 142-145)
withStyle(style, finalPrompt) ==
  IF Trim(style) # <<>> THEN translateStyleToEnglish(style) \o <<SP>> \o finalPrompt
  ELSE finalPrompt

\* lines 97-99 and 148-150
limitPrompt(finalPrompt) ==
  IF StrLen(finalPrompt) > MaxPromptLen THEN Slice(finalPrompt, MaxPromptLen)
  ELSE finalPrompt

\* the custom prompt path (lines 54-59)
customPrompt(prompt, scene, consistencyPrompt) ==
  CreatePrefix \o consistencyPrompt \o Trim(prompt)
    \o (IF sceneOrderPositive(scene) THEN SequenceCustom(scene[1].order) ELSE <<>>)

\* the description path and the alternative text path (lines 83-99, 134-150)
scenePrompt(text, style, scene, consistencyPrompt) ==
  limitPrompt(withStyle(style,
    CreatePrefix \o consistencyPrompt \o text
      \o (IF sceneOrderPositive(scene) THEN SequenceScene(scene[1].order) ELSE <<>>)))

\* a fallback that looks at the dialogue before the narration
alternativeTextDialogueFirst(scene) ==
  IF Trim(scene[1].dialogue) # <<>> THEN Trim(scene[1].dialogue)
  ELSE IF Trim(scene[1].narration) # <<>> THEN Trim(scene[1].narration)
  ELSE IF Trim(scene[1].title) # <<>> THEN Trim(scene[1].title)
  ELSE <<>>

\* lines 121-130
alternativeText(scene) ==
  IF Trim(scene[1].narration) # <<>> THEN Trim(scene[1].narration)
  ELSE IF Trim(scene[1].dialogue) # <<>> THEN Trim(scene[1].dialogue)
  ELSE IF Trim(scene[1].title) # <<>> THEN Trim(scene[1].title)
  ELSE <<>>

\* a generateImage that gives the instruction whatever the previous images are
consistencyPromptAlways(previousImages) == ConsistencyInstruction

\* lines 39-43
consistencyPromptOf(previousImages) ==
  IF Len(previousImages) > 0 THEN ConsistencyInstruction ELSE <<>>

\* generateImage up to the call of the image API: the path taken ("none" when
\* no call is made) and the prompt sent
imageRequest(prompt, style, scene, previousImages) ==
  LET consistencyPrompt == consistencyPromptOf(previousImages)
  IN IF prompt # <<>> /\ \E i \in 1..Len(prompt) : prompt[i].k = SampleMarker.k
     THEN [path |-> "sample", finalPrompt |-> styleSamplePrompt(prompt, style)]
     ELSE IF prompt # <<>> /\ Trim(prompt) # <<>>
     THEN [path |-> "custom",
           finalPrompt |-> customPrompt(prompt, scene, consistencyPrompt)]
     ELSE IF scene # <<>> /\ Trim(scene[1].description) # <<>>
     THEN [path |-> "description",
           finalPrompt |-> scenePrompt(Trim(scene[1].description), style, scene,
                                       consistencyPrompt)]
     ELSE IF scene # <<>> /\ alternativeText(scene) # <<>>
     THEN [path |-> "alternative",
           finalPrompt |-> scenePrompt(alternativeText(scene), style, scene,
                                       consistencyPrompt)]
     ELSE [path |-> "none", finalPrompt |-> <<>>]

\* what the image API does with a call: it returns a URL, returns no URL, or throws
ApiOutcomes == {"url", "nourl", "throws"}

\* a generateImage without its catch blocks
tryImageNoCatch(outcome, url) ==
  IF outcome = "url" THEN Returned(url)
  ELSE IF outcome = "nourl" THEN Returned(Placeholder)
  ELSE Rejected

\* `url || "/images/placeholder.jpg"` inside try, the placeholder in catch
\* (lines 61-76, 102-117, 153-168, 196-211)
tryImage(outcome, url) ==
  IF outcome = "url" THEN Returned(url) ELSE Returned(Placeholder)

\* the value generateImage resolves to, given what the API does with the call
imageResult(request, outcome, url) ==
  CASE request.path = "sample"      -> tryImage(outcome, url)
    [] request.path = "custom"      -> tryImage(outcome, url)
    [] request.path = "description" -> tryImage(outcome, url)
    [] request.path = "alternative" -> tryImage(outcome, url)
    [] OTHER                        -> Returned(Placeholder)

\* ---------------------------------------------------------- sceneController

\* the Scene object createScene builds (lines 330-339): `data.x || default`
createScene(storyId, order, data) ==
  [storyId     |-> storyId,
   order       |-> order,
   title       |-> IF data.title # <<>> THEN data.title ELSE <<CenaN(order + 1)>>,
   description |-> data.description,
   narration   |-> data.narration,
   dialogue    |-> data.dialogue,
   imageUrl    |-> <<>>]

\* the Scene objects the loop of generateStoryScenes creates (lines 224-229)
scenesOf(storyId, drafts) ==
  [j \in 1..Len(drafts) |-> createScene(storyId, j - 1, drafts[j])]

InSeq(seq, x) == \E i \in 1..Len(seq) : seq[i] = x

\* a getScenesByStory that leaves the scenes in the order of the store
storeOrder(ids, heap) == ids

RECURSIVE sortByOrder(_, _)
\* Array.prototype.sort((a, b) => a.order - b.order): stable, ascending
sortByOrder(ids, heap) ==
  IF ids = <<>> THEN <<>>
  ELSE LET rest == sortByOrder(SubSeq(ids, 1, Len(ids) - 1), heap)
           x    == ids[Len(ids)]
           k    == Cardinality({j \in 1..Len(rest) : heap[rest[j]].order <= heap[x].order})
       IN SubSeq(rest, 1, k) \o <<x>> \o SubSeq(rest, k + 1, Len(rest))

\* getScenesByStory on a store `store` of objects `heap`
scenesByStory(store, heap, storyId) ==
  sortByOrder(SelectSeq(store, LAMBDA id : heap[id].storyId = storyId), heap)

getScenesByStory(storyId) == scenesByStory(scenes, sceneHeap, storyId)

\* Array.prototype.splice(index, 1) for the element x
Remove(seq, x) == SelectSeq(seq, LAMBDA y : y # x)

\* updateScene's four assignments: only the truthy fields of `updates`
applyUpdates(scene, updates) ==
  [scene EXCEPT
     !.title       = IF updates.title # <<>> THEN updates.title ELSE @,
     !.description = IF updates.description # <<>> THEN updates.description ELSE @,
     !.narration   = IF updates.narration # <<>> THEN updates.narration ELSE @,
     !.dialogue    = IF updates.dialogue # <<>> THEN updates.dialogue ELSE @]

NoRequest == [path |-> "none", finalPrompt |-> <<>>]

LoopState(status, heap, i, previousImages, request) ==
  [status |-> status, heap |-> heap, i |-> i, previousImages |-> previousImages,
   request |-> request]

RECURSIVE imagesLoop(_, _, _, _, _, _)

\* a generateImagesForStory that gives up after a scene whose image failed
imagesLoopAborting(heap, store, storyScenes, i, style, previousImages) ==
  IF i > 1 /\ heap[storyScenes[i - 1]].imageUrl = Placeholder
  THEN LoopState("rejected", heap, i, previousImages, NoRequest)
  ELSE IF i > Len(storyScenes)
  THEN LoopState("done", heap, i, previousImages, NoRequest)
  ELSE IF ~InSeq(store, storyScenes[i])
  THEN LoopState("rejected", heap, i, previousImages, NoRequest)
  ELSE IF imageRequest(<<>>, style, <<heap[storyScenes[i]]>>, previousImages).path = "none"
  THEN imagesLoop([heap EXCEPT ![storyScenes[i]].imageUrl = Placeholder],
                  store, storyScenes, i + 1, style, previousImages)
  ELSE LoopState("await", heap, i, previousImages,
                 imageRequest(<<>>, style, <<heap[storyScenes[i]]>>, previousImages))

\* generateImagesForStory from its i-th scene up to the next await of the image
\* API: updateSceneImage looks the scene up (and throws when it is gone), and
\* generateImage either calls the API ("await") or returns the placeholder at once
imagesLoop(heap, store, storyScenes, i, style, previousImages) ==
  IF i > Len(storyScenes)
  THEN LoopState("done", heap, i, previousImages, NoRequest)
  ELSE IF ~InSeq(store, storyScenes[i])
  THEN LoopState("rejected", heap, i, previousImages, NoRequest)
  ELSE LET request == imageRequest(<<>>, style, <<heap[storyScenes[i]]>>, previousImages)
       IN IF request.path = "none"
          THEN imagesLoop([heap EXCEPT ![storyScenes[i]].imageUrl = Placeholder],
                          store, storyScenes, i + 1, style, previousImages)
          ELSE LoopState("await", heap, i, previousImages, request)

\* lines 499-501: only a real image is pushed to previousImages
pushPrevious(previousImages, imageUrl) ==
  IF imageUrl # <<>> /\ imageUrl # Placeholder THEN Append(previousImages, imageUrl)
  ELSE previousImages

\* routes/index.ts 170-172: the images of the scenes before `scene`
routePreviousImages(store, heap, scene) ==
  LET before == SelectSeq(scenesByStory(store, heap, scene.storyId),
                          LAMBDA id : heap[id].order < scene.order)
      urls   == [j \in 1..Len(before) |-> heap[before[j]].imageUrl]
  IN SelectSeq(urls, LAMBDA url : url # <<>> /\ url[1].k = "http")

\* regenerateSceneImage's call of generateImage (lines 389-397)
regenerateRequest(customPromptArg, style, sceneObj, previousImages) ==
  IF customPromptArg = <<>> \/ Trim(customPromptArg) = <<>>
  THEN imageRequest(<<>>, style, <<sceneObj>>, previousImages)
  ELSE imageRequest(customPromptArg, style, <<>>, previousImages)

\* generateStoryScenes up to the scene drafts it creates scenes from; "rejected"
\* when extractContent throws on an empty content (openai.ts 30)
sceneDrafts(content, storyProposal, numScenes) ==
  IF content = <<>> THEN Rejected
  ELSE Returned(adjustScenes(generateScenes(content, storyProposal, numScenes), numScenes))

\* ------------------------------------------------------------- the server

MaxStories == 1

MaxSceneObjs == 6

MaxInFlight == 2

MaxRequested == 3

MaxExtras == 1

Briefings == {<<Word(0, 10)>>}

Proposals == {<<Word(9, 40), Tok(".", 0, 1), SP, Word(10, 30)>>}

\* the styles the style routes accept: non-empty after trim
Styles == {Lit("aquarela", 8)}

\* the texts the chat API answers a scene request with
SceneTexts ==
  {<<CenaNColon(1), NL, LabelDescricao, SP, Word(1, 30), NL,
     CenaNColon(2), NL, LabelDescricao, SP, Word(2, 30), NL,
     CenaNColon(3), NL, LabelTitulo, SP, Word(3, 10)>>}

SceneUpdates ==
  {[title |-> <<>>, description |-> <<Word(5, 20)>>, narration |-> <<>>, dialogue |-> <<>>]}

\* values of req.body.numScenes: a number (whole part and tenths), a string, or
\* undefined when the body has none
NumberValue(whole, tenths) == [t |-> "number", whole |-> whole, tenths |-> tenths, s |-> <<>>]

StringValue(s) == [t |-> "string", whole |-> 0, tenths |-> 0, s |-> s]

Undefined == [t |-> "undefined", whole |-> 0, tenths |-> 0, s |-> <<>>]

\* the numScenes of a request: whole numbers from under the range to
\* MaxRequested and over the range, numbers with a fraction, strings of digits,
\* of digits and letters, of letters, and none
NumScenesArgs ==
  {NumberValue(n, 0) : n \in (MinScenes - 1)..MaxRequested}
    \cup {NumberValue(MaxScenes + 1, 0), NumberValue(MinScenes - 1, 5),
          NumberValue(MinScenes, 5), StringValue(<<Tok("num", MinScenes, 1)>>),
          StringValue(<<Tok("num", MinScenes, 1), Word(1, 3)>>),
          StringValue(<<Tok("num", MaxScenes + 1, 2)>>),
          StringValue(<<Word(1, 3)>>), StringValue(<<>>), Undefined}

CustomPrompts == {<<>>, <<Word(6, 20)>>}

Idle ==
  [op |-> "idle", pc |-> "idle", storyId |-> 0, sceneId |-> 0, numScenes |-> 0,
   proposal |-> <<>>, style |-> <<>>, storyScenes |-> <<>>, i |-> 0,
   previousImages |-> <<>>, sceneObjects |-> <<>>, path |-> "none"]

\* what a generateStoryScenes request that ended in this step leaves: whether it
\* returned, threw or was refused as invalid, its story, the ids of the scenes it
\* returned and of the scenes its image run went over
Done(op, status, storyId, value, processed) ==
  [op |-> op, status |-> status, storyId |-> storyId,
   value |-> value, processed |-> processed]

NoneDone == Done("none", "returned", 0, <<>>, <<>>)

\* an answer of the image API: for which scene, asked by which function, and
\* whether the call failed (threw, or brought no URL)
Response(via, sceneId, failed) == [via |-> via, sceneId |-> sceneId, failed |-> failed]

NoResponse == Response("none", 0, FALSE)

NoCall ==
  [via |-> "none", sceneId |-> 0, storyId |-> 0, order |-> 0, custom |-> FALSE,
   previousImages |-> <<>>, request |-> NoRequest]

\* a call of the image API for the scene sceneId, the object `scene`, as it is made
Call(via, sceneId, scene, custom, previousImages, request) ==
  [via |-> via, sceneId |-> sceneId, storyId |-> scene.storyId,
   order |-> scene.order, custom |-> custom,
   previousImages |-> previousImages, request |-> request]

\* both stores empty and no request in flight
ServerAtRest ==
  /\ stories = <<>>
  /\ storyHeap = <<>>
  /\ scenes = <<>>
  /\ sceneHeap = <<>>
  /\ reqs = [slot \in 1..MaxInFlight |-> Idle]
  /\ lastCall = NoCall
  /\ lastDone = NoneDone
  /\ lastResponse = NoResponse
  /\ fuel = MaxExtras

Init ==
  /\ callIn = <<>>
  /\ callOut = Pending
  /\ ServerAtRest

\* ids a caller may pass: those of the objects created so far, and 0, which is
\* the id of none
StoryIdArgs == 0..Len(storyHeap)

SceneIdArgs == 0..Len(sceneHeap)

FreeSlot(slot) == reqs[slot].pc = "idle" /\ \A other \in 1..(slot - 1) : reqs[other].pc # "idle"

RECURSIVE ReservedUpTo(_)
\* the scenes the requests awaiting their text will still create
ReservedUpTo(slot) ==
  IF slot = 0 THEN 0
  ELSE (IF reqs[slot].pc = "text" THEN reqs[slot].numScenes ELSE 0) + ReservedUpTo(slot - 1)

Reserved == ReservedUpTo(MaxInFlight)

\* no call of the image API and no generateStoryScenes outcome in this step
Quiet == lastCall' = NoCall /\ lastDone' = NoneDone /\ lastResponse' = NoResponse

\* createStory (storyController.ts 27-47), the proposal being the chat API's answer
CreateStory(briefing, proposal) ==
  /\ Len(storyHeap) < MaxStories
  /\ storyHeap' = Append(storyHeap,
       [title |-> SplitOn(proposal, LAMBDA t : t.k = ".")[1],
        briefing |-> briefing,
        proposal |-> proposal,
        style |-> <<>>,
        scenes |-> <<>>,
        visualSamples |-> <<>>,
        selectedVisualSample |-> <<>>,
        lastNumScenes |-> 0])
  /\ stories' = Append(stories, Len(storyHeap) + 1)
  /\ Quiet
  /\ UNCHANGED <<callIn, callOut, scenes, sceneHeap, reqs, fuel>>

\* createStory when generateStoryProposal rejects
CreateStoryFails ==
  /\ Quiet
  /\ UNCHANGED <<callIn, callOut, stories, storyHeap, scenes, sceneHeap, reqs, fuel>>

\* setStoryStyle (storyController.ts 168-179); the style is stored before the
\* await of generateStyleSamples, whose outcome changes nothing
SetStoryStyle(storyId, style) ==
  /\ IF InSeq(stories, storyId)
     THEN storyHeap' = [storyHeap EXCEPT ![storyId].style = style]
     ELSE UNCHANGED storyHeap
  /\ Quiet
  /\ UNCHANGED <<callIn, callOut, stories, scenes, sceneHeap, reqs, fuel>>

\* getStory (storyController.ts 249-257)
GetStory(storyId) ==
  /\ fuel > 0
  /\ fuel' = fuel - 1
  /\ IF InSeq(stories, storyId)
     THEN storyHeap' = [storyHeap EXCEPT ![storyId].scenes = getScenesByStory(storyId)]
     ELSE UNCHANGED storyHeap
  /\ Quiet
  /\ UNCHANGED <<callIn, callOut, stories, scenes, sceneHeap, reqs>>

\* a deleteStory that removes the story and leaves its scenes in the store
DeleteStoryOnly(storyId) ==
  /\ IF InSeq(stories, storyId)
     THEN stories' = Remove(stories, storyId)
     ELSE UNCHANGED stories
  /\ Quiet
  /\ UNCHANGED <<callIn, callOut, storyHeap, scenes, sceneHeap, reqs, fuel>>

\* deleteStory (storyController.ts 297-307) with deleteScene for each scene
DeleteStory(storyId) ==
  /\ IF InSeq(stories, storyId)
     THEN /\ scenes' = SelectSeq(scenes, LAMBDA id : ~InSeq(getScenesByStory(storyId), id))
          /\ stories' = Remove(stories, storyId)
     ELSE UNCHANGED <<stories, scenes>>
  /\ lastDone' = Done("deleteStory", "returned", storyId, <<>>, <<>>)
  /\ lastCall' = NoCall
  /\ lastResponse' = NoResponse
  /\ UNCHANGED <<callIn, callOut, storyHeap, sceneHeap, reqs, fuel>>

\* updateScene (storyController.ts 439-451)
UpdateScene(sceneId, updates) ==
  /\ fuel > 0
  /\ fuel' = fuel - 1
  /\ IF InSeq(scenes, sceneId)
     THEN sceneHeap' = [sceneHeap EXCEPT ![sceneId] = applyUpdates(@, updates)]
     ELSE UNCHANGED sceneHeap
  /\ Quiet
  /\ UNCHANGED <<callIn, callOut, stories, storyHeap, scenes, reqs>>

NaN == [isNaN |-> TRUE, n |-> 0]

\* parseInt of a value that is not negative: the whole part of a number (parseInt
\* reads String(value) up to the point), the digits a string starts with after
\* its leading white space, NaN when there are none
parseInt(value) ==
  CASE value.t = "number" -> [isNaN |-> FALSE, n |-> value.whole]
    [] value.t = "string" /\ TrimStart(value.s) # <<>> /\ TrimStart(value.s)[1].k = "num" ->
         [isNaN |-> FALSE, n |-> TrimStart(value.s)[1].v]
    [] OTHER -> NaN

\* routes/index.ts 76: the test that makes the route answer 400
invalidNumScenes(parsedNumScenes) ==
  parsedNumScenes.isNaN \/ parsedNumScenes.n < MinScenes \/ parsedNumScenes.n > MaxScenes

\* POST /stories/:id/scenes (routes/index.ts 70-93) and generateStoryScenes up
\* to its await of generateScenes (storyController.ts 191-197)
GenerateStoryScenes(storyId, numScenes) ==
  /\ IF invalidNumScenes(parseInt(numScenes))
     THEN /\ lastDone' = Done("generateStoryScenes", "invalid", storyId, <<>>, <<>>)
          /\ UNCHANGED reqs
     ELSE IF ~InSeq(stories, storyId)
     THEN /\ lastDone' = Done("generateStoryScenes", "rejected", storyId, <<>>, <<>>)
          /\ UNCHANGED reqs
     ELSE /\ Len(sceneHeap) + Reserved + parseInt(numScenes).n <= MaxSceneObjs
          /\ \E slot \in 1..MaxInFlight :
               /\ FreeSlot(slot)
               /\ reqs' = [reqs EXCEPT ![slot] =
                    [Idle EXCEPT !.op = "scenes", !.pc = "text", !.storyId = storyId,
                                 !.numScenes = parseInt(numScenes).n,
                                 !.proposal = storyHeap[storyId].proposal]]
          /\ lastDone' = NoneDone
  /\ lastCall' = NoCall
  /\ lastResponse' = NoResponse
  /\ UNCHANGED <<callIn, callOut, stories, storyHeap, scenes, sceneHeap, fuel>>

\* a generateStoryScenes that stores one placeholder scene when generateScenes
\* rejects
ScenesTextFailsWithPlaceholder(slot) ==
  /\ reqs[slot].pc = "text"
  /\ reqs' = [reqs EXCEPT ![slot] = Idle]
  /\ sceneHeap' = Append(sceneHeap,
                         createScene(reqs[slot].storyId, 0,
                                     SceneDraft(<<>>, Lit("Nova cena", 9), <<>>, <<>>)))
  /\ scenes' = Append(scenes, Len(sceneHeap) + 1)
  /\ lastDone' = Done("generateStoryScenes", "rejected", reqs[slot].storyId, <<>>, <<>>)
  /\ lastCall' = NoCall
  /\ lastResponse' = NoResponse
  /\ UNCHANGED <<callIn, callOut, stories, storyHeap, fuel>>

\* generateStoryScenes when generateScenes rejects: the chat API fails, or
\* extractContent throws on an empty answer
ScenesTextFails(slot) ==
  /\ reqs[slot].pc = "text"
  /\ reqs' = [reqs EXCEPT ![slot] = Idle]
  /\ lastDone' = Done("generateStoryScenes", "rejected", reqs[slot].storyId, <<>>, <<>>)
  /\ lastCall' = NoCall
  /\ lastResponse' = NoResponse
  /\ UNCHANGED <<callIn, callOut, stories, storyHeap, scenes, sceneHeap, fuel>>

\* the request in `slot`, whose image run is `r`, after the run went on to `loop`
AfterLoop(slot, r, loop) ==
  /\ sceneHeap' = loop.heap
  /\ CASE loop.status = "await" ->
            /\ reqs' = [reqs EXCEPT ![slot] =
                 [r EXCEPT !.pc = "img", !.i = loop.i,
                           !.previousImages = loop.previousImages,
                           !.path = loop.request.path]]
            /\ lastCall' = Call("generateImagesForStory", r.storyScenes[loop.i],
                                loop.heap[r.storyScenes[loop.i]], FALSE,
                                loop.previousImages, loop.request)
            /\ lastDone' = NoneDone
       [] loop.status = "done" ->
            /\ reqs' = [reqs EXCEPT ![slot] = Idle]
            /\ lastDone' = Done("generateStoryScenes", "returned", r.storyId,
                                r.sceneObjects, r.storyScenes)
            /\ lastCall' = NoCall
       [] OTHER ->
            /\ reqs' = [reqs EXCEPT ![slot] = Idle]
            /\ lastDone' = Done("generateStoryScenes", "rejected", r.storyId,
                                <<>>, r.storyScenes)
            /\ lastCall' = NoCall

\* storyController.ts 232-237: the story gets the new scenes, and
\* generateImagesForStory starts when the story has a style
imagesAfterScenes(slot, r, sceneObjects, heap1, store1, style) ==
  /\ scenes' = store1
  /\ storyHeap' = [storyHeap EXCEPT ![r.storyId].scenes = sceneObjects,
                                    ![r.storyId].lastNumScenes = r.numScenes]
  /\ IF style # <<>>
     THEN AfterLoop(slot,
                    [r EXCEPT !.sceneObjects = sceneObjects, !.style = style,
                              !.storyScenes = scenesByStory(store1, heap1, r.storyId)],
                    imagesLoop(heap1, store1, scenesByStory(store1, heap1, r.storyId),
                               1, style, <<>>))
     ELSE AfterLoop(slot,
                    [r EXCEPT !.sceneObjects = sceneObjects, !.style = style,
                              !.storyScenes = <<>>],
                    LoopState("done", heap1, 0, <<>>, NoRequest))

\* storyController.ts 224-229: one createScene for each draft, in order
createScenes(slot, r, drafts) ==
  imagesAfterScenes(slot, r,
                    [j \in 1..Len(drafts) |-> Len(sceneHeap) + j],
                    sceneHeap \o scenesOf(r.storyId, drafts),
                    scenes \o [j \in 1..Len(drafts) |-> Len(sceneHeap) + j],
                    storyHeap[r.storyId].style)

\* generateStoryScenes from the answer of generateScenes to its next await
\* (storyController.ts 197-237): adjust the count, create the scenes, store them
\* in the story, and start generateImagesForStory when the story has a style
ScenesText(slot, content) ==
  /\ reqs[slot].pc = "text"
  /\ content # <<>>
  /\ createScenes(slot, reqs[slot],
                  sceneDrafts(content, reqs[slot].proposal, reqs[slot].numScenes).value)
  /\ lastResponse' = NoResponse
  /\ UNCHANGED <<callIn, callOut, stories, fuel>>

\* a failing call of the image API takes one of the failures left to explore
Spend(outcome) ==
  IF outcome = "url" THEN UNCHANGED fuel
  ELSE fuel > 0 /\ fuel' = fuel - 1

\* the catch of updateSceneImage and regenerateSceneImage (lines 364-368, 398-402)
imageUrlOf(result) == IF result.status = "returned" THEN result.value ELSE Placeholder

\* the image API answers the call a generateImagesForStory run waits for:
\* updateSceneImage stores the image, the run pushes it and goes on (lines 496-503)
ImageResponse(slot, outcome) ==
  LET r        == reqs[slot]
      id       == r.storyScenes[r.i]
      imageUrl == imageUrlOf(imageResult([path |-> r.path], outcome, Url(id)))
      heap1    == [sceneHeap EXCEPT ![id].imageUrl = imageUrl]
  IN /\ r.pc = "img"
     /\ r.op = "scenes"
     /\ Spend(outcome)
     /\ lastResponse' = Response("generateImagesForStory", id, outcome # "url")
     /\ AfterLoop(slot, r, imagesLoop(heap1, scenes, r.storyScenes, r.i + 1, r.style,
                                      pushPrevious(r.previousImages, imageUrl)))
     /\ UNCHANGED <<callIn, callOut, stories, storyHeap, scenes>>

\* POST /scenes/:id/regenerate-image (routes/index.ts 150-186) and
\* regenerateSceneImage up to the await of generateImage
RegenerateImage(sceneId, customPromptArg) ==
  LET sceneObj == sceneHeap[sceneId]
      storyId  == sceneObj.storyId
      previousImages == routePreviousImages(scenes, sceneHeap, sceneObj)
      request  == regenerateRequest(customPromptArg, storyHeap[storyId].style, sceneObj,
                                    previousImages)
  IN /\ fuel > 0
     /\ fuel' = fuel - 1
     /\ lastDone' = NoneDone
     /\ lastResponse' = NoResponse
     /\ IF ~InSeq(scenes, sceneId) \/ ~InSeq(stories, storyId)
        THEN /\ lastCall' = NoCall
             /\ UNCHANGED <<storyHeap, sceneHeap, reqs>>
        ELSE /\ storyHeap' = [storyHeap EXCEPT ![storyId].scenes = getScenesByStory(storyId)]
             /\ IF request.path = "none"
                THEN /\ sceneHeap' = [sceneHeap EXCEPT ![sceneId].imageUrl = Placeholder]
                     /\ lastCall' = NoCall
                     /\ UNCHANGED reqs
                ELSE /\ \E slot \in 1..MaxInFlight :
                          /\ FreeSlot(slot)
                          /\ reqs' = [reqs EXCEPT ![slot] =
                               [Idle EXCEPT !.op = "regen", !.pc = "img",
                                            !.storyId = storyId, !.sceneId = sceneId,
                                            !.path = request.path]]
                     /\ lastCall' = Call("regenerateSceneImage", sceneId, sceneObj,
                                         Trim(customPromptArg) # <<>>, previousImages,
                                         request)
                     /\ UNCHANGED sceneHeap
     /\ UNCHANGED <<callIn, callOut, stories, scenes>>

\* the image API answers the call regenerateSceneImage waits for (lines 391-402)
RegenerateResponse(slot, outcome) ==
  LET r        == reqs[slot]
      imageUrl == imageUrlOf(imageResult([path |-> r.path], outcome, Url(r.sceneId)))
  IN /\ r.pc = "img"
     /\ r.op = "regen"
     /\ sceneHeap' = [sceneHeap EXCEPT ![r.sceneId].imageUrl = imageUrl]
     /\ reqs' = [reqs EXCEPT ![slot] = Idle]
     /\ Spend(outcome)
     /\ lastCall' = NoCall
     /\ lastDone' = NoneDone
     /\ lastResponse' = Response("regenerateSceneImage", r.sceneId, outcome # "url")
     /\ UNCHANGED <<callIn, callOut, stories, storyHeap, scenes>>

Next ==
  \/ \E b \in Briefings, p \in Proposals : CreateStory(b, p)
  \/ CreateStoryFails
  \/ \E id \in StoryIdArgs, style \in Styles : SetStoryStyle(id, style)
  \/ \E id \in StoryIdArgs : GetStory(id)
  \/ \E id \in StoryIdArgs : DeleteStory(id)
  \/ \E id \in SceneIdArgs, u \in SceneUpdates : UpdateScene(id, u)
  \/ \E id \in StoryIdArgs, n \in NumScenesArgs : GenerateStoryScenes(id, n)
  \/ \E slot \in 1..MaxInFlight : ScenesTextFails(slot)
  \/ \E slot \in 1..MaxInFlight, content \in SceneTexts : ScenesText(slot, content)
  \/ \E slot \in 1..MaxInFlight, outcome \in ApiOutcomes : ImageResponse(slot, outcome)
  \/ \E id \in SceneIdArgs, c \in CustomPrompts : RegenerateImage(id, c)
  \/ \E slot \in 1..MaxInFlight, outcome \in ApiOutcomes : RegenerateResponse(slot, outcome)

Spec == Init /\ [][Next]_vars

\* ------------------------------------------------- the stores with two stories

\* a story after createStory and, for numScenes > 0, after a generateStoryScenes
\* that created the scenes sceneObjects
StoryAfter(briefing, proposal, sceneObjects, numScenes) ==
  [title |-> SplitOn(proposal, LAMBDA t : t.k = ".")[1],
   briefing |-> briefing,
   proposal |-> proposal,
   style |-> <<>>,
   scenes |-> sceneObjects,
   visualSamples |-> <<>>,
   selectedVisualSample |-> <<>>,
   lastNumScenes |-> numScenes]

\* the scenes generateStoryScenes created for a story that asked for numScenes
ScenesAfter(storyId, content, proposal, numScenes) ==
  IF numScenes = 0 THEN <<>>
  ELSE scenesOf(storyId, sceneDrafts(content, proposal, numScenes).value)

\* the ids of numScenes scenes created after `before` others
IdsAfter(before, numScenes) == [j \in 1..numScenes |-> before + j]

\* two stories were created and scenes were generated, in either order, for
\* both, for one or for none of them, with no style chosen yet
InitStores ==
  /\ callIn = <<>>
  /\ callOut = Pending
  /\ stories = <<1, 2>>
  /\ \E b \in Briefings, p \in Proposals, content \in SceneTexts,
        n1 \in {0, MinScenes}, n2 \in {0, MinScenes}, first \in {1, 2} :
       /\ storyHeap = <<StoryAfter(b, p, IdsAfter(IF first = 1 THEN 0 ELSE n2, n1), n1),
                        StoryAfter(b, p, IdsAfter(IF first = 2 THEN 0 ELSE n1, n2), n2)>>
       /\ sceneHeap = IF first = 1
                      THEN ScenesAfter(1, content, p, n1) \o ScenesAfter(2, content, p, n2)
                      ELSE ScenesAfter(2, content, p, n2) \o ScenesAfter(1, content, p, n1)
  /\ scenes = [i \in 1..Len(sceneHeap) |-> i]
  /\ reqs = [slot \in 1..MaxInFlight |-> Idle]
  /\ lastCall = NoCall
  /\ lastDone = NoneDone
  /\ lastResponse = NoResponse
  /\ fuel = MaxExtras

NextStores ==
  \/ \E id \in StoryIdArgs, style \in Styles : SetStoryStyle(id, style)
  \/ \E id \in StoryIdArgs : GetStory(id)
  \/ \E id \in StoryIdArgs : DeleteStory(id)
  \/ \E id \in SceneIdArgs, u \in SceneUpdates : UpdateScene(id, u)

SpecStores == InitStores /\ [][NextStores]_vars

\* ------------------------------------------------------- the visual samples

NumSamples == 3

MaxSampleCalls == 6

\* a generateVisualSamples call between its awaits: its story, its style, the
\* number of samples it has and its local array visualSamples
IdleSamples ==
  [op |-> "idle", pc |-> "idle", storyId |-> 0, style |-> <<>>, i |-> 0,
   visualSamples |-> <<>>]

\* the record pushed for the i-th sample (storyController.ts 82-88)
sampleRecord(i, style, imageUrl) ==
  [title       |-> <<Tok("Exemplo N", i + 1, 8 + Digits(i + 1))>>,
   description |-> Lit("Exemplo visual no estilo ", 25) \o style,
   narration   |-> <<>>,
   dialogue    |-> <<>>,
   imageUrl    |-> imageUrl]

\* values of req.body.sampleIndex: whole numbers from under to over the range
SampleIndexArgs == (0 - 1)..NumSamples

\* one story was created, and no visual sample was asked for yet
InitSamples ==
  /\ callIn = <<>>
  /\ callOut = Pending
  /\ stories = <<1>>
  /\ \E b \in Briefings, p \in Proposals : storyHeap = <<StoryAfter(b, p, <<>>, 0)>>
  /\ scenes = <<>>
  /\ sceneHeap = <<>>
  /\ reqs = [slot \in 1..MaxInFlight |-> IdleSamples]
  /\ lastCall = NoCall
  /\ lastDone = NoneDone
  /\ lastResponse = NoResponse
  /\ fuel = MaxSampleCalls

\* POST /stories/:id/visual-samples (routes/index.ts 196-221) and
\* generateVisualSamples up to its first await of generateImage
\* (storyController.ts 58-79)
GenerateVisualSamples(storyId, style) ==
  /\ IF Trim(style) = <<>>
     THEN /\ lastDone' = Done("generateVisualSamples", "invalid", storyId, <<>>, <<>>)
          /\ UNCHANGED <<storyHeap, reqs>>
     ELSE IF ~InSeq(stories, storyId)
     THEN /\ lastDone' = Done("generateVisualSamples", "rejected", storyId, <<>>, <<>>)
          /\ UNCHANGED <<storyHeap, reqs>>
     ELSE /\ storyHeap' = [storyHeap EXCEPT ![storyId].scenes = getScenesByStory(storyId),
                                            ![storyId].style = style]
          /\ \E slot \in 1..MaxInFlight :
               /\ FreeSlot(slot)
               /\ reqs' = [reqs EXCEPT ![slot] =
                    [IdleSamples EXCEPT !.op = "samples", !.pc = "img",
                                        !.storyId = storyId, !.style = style]]
          /\ lastDone' = NoneDone
  /\ lastCall' = NoCall
  /\ lastResponse' = NoResponse
  /\ UNCHANGED <<callIn, callOut, stories, scenes, sceneHeap, fuel>>

\* the image API answers the call a generateVisualSamples waits for, with a
\* URL it has not given before or with a failure: the sample is pushed, and
\* after the last one the story gets the new array (storyController.ts 79-93)
VisualSampleResponse(slot, outcome) ==
  LET r       == reqs[slot]
      sample  == sampleRecord(r.i, r.style,
                              imageResult([path |-> "sample"], outcome, Url(fuel)).value)
      samples == Append(r.visualSamples, sample)
  IN /\ r.pc = "img"
     /\ r.op = "samples"
     /\ fuel > 0
     /\ fuel' = fuel - 1
     /\ lastResponse' = Response("generateVisualSamples", 0, outcome # "url")
     /\ lastCall' = NoCall
     /\ IF r.i + 1 < NumSamples
        THEN /\ reqs' = [reqs EXCEPT ![slot].i = r.i + 1, ![slot].visualSamples = samples]
             /\ lastDone' = NoneDone
             /\ UNCHANGED storyHeap
        ELSE /\ reqs' = [reqs EXCEPT ![slot] = IdleSamples]
             /\ storyHeap' = [storyHeap EXCEPT ![r.storyId].visualSamples = samples]
             /\ lastDone' = Done("generateVisualSamples", "returned", r.storyId, samples, <<>>)
     /\ UNCHANGED <<callIn, callOut, stories, scenes, sceneHeap>>

\* POST /stories/:id/select-visual (routes/index.ts 233-248) and
\* selectVisualSample (storyController.ts 109-123)
SelectVisualSample(storyId, sampleIndex) ==
  /\ IF sampleIndex < 0
     THEN /\ lastDone' = Done("selectVisualSample", "invalid", storyId, <<>>, <<>>)
          /\ UNCHANGED storyHeap
     ELSE IF ~InSeq(stories, storyId) \/ sampleIndex >= Len(storyHeap[storyId].visualSamples)
     THEN /\ lastDone' = Done("selectVisualSample", "rejected", storyId, <<>>, <<>>)
          /\ UNCHANGED storyHeap
     ELSE /\ storyHeap' = [storyHeap EXCEPT ![storyId].selectedVisualSample =
                             storyHeap[storyId].visualSamples[sampleIndex + 1]]
          /\ lastDone' = Done("selectVisualSample", "returned", storyId, <<>>, <<>>)
  /\ lastCall' = NoCall
  /\ lastResponse' = NoResponse
  /\ UNCHANGED <<callIn, callOut, stories, scenes, sceneHeap, reqs, fuel>>

NextSamples ==
  \/ \E id \in StoryIdArgs, style \in Styles \cup {<<>>} : GenerateVisualSamples(id, style)
  \/ \E slot \in 1..MaxInFlight, outcome \in ApiOutcomes : VisualSampleResponse(slot, outcome)
  \/ \E id \in StoryIdArgs, k \in SampleIndexArgs : SelectVisualSample(id, k)

SpecSamples == InitSamples /\ [][NextSamples]_vars

\* ------------------------------------------------------- the scene pipeline

MaxTextLen == 4

RECURSIVE Concat(_)
Concat(pieces) == IF pieces = <<>> THEN <<>> ELSE Head(pieces) \o Concat(Tail(pieces))

\* the texts made of at most maxLen of the pieces
Texts(pieces, maxLen) == {Concat(f) : f \in UNION {[1..m -> pieces] : m \in 0..maxLen}}

\* pieces of an answer of the chat API: a scene marker with and without text
\* after it, a marker without its colon, a line end, a labelled field, plain text
PipelinePieces ==
  {<<CenaNColon(1)>>, <<CenaNColon(1), Word(1, 4)>>, <<CenaN(2), NL>>, <<NL>>,
   <<LabelDescricao, Word(2, 4)>>, <<Word(3, 4)>>}

PipelineProposals == {<<Word(9, 40)>>}

InitPipeline ==
  /\ callIn \in [content : Texts(PipelinePieces, MaxTextLen),
                 storyProposal : PipelineProposals,
                 numScenes : (MinScenes - 1)..(MaxScenes + 1)]
  /\ callOut = Pending
  /\ ServerAtRest

RunPipeline ==
  /\ callOut = Pending
  /\ callIn.content # <<>>
  /\ callOut' = Returned(scenesOf(1, sceneDrafts(callIn.content, callIn.storyProposal,
                                                 callIn.numScenes).value))
  /\ UNCHANGED <<callIn, stories, storyHeap, scenes, sceneHeap, reqs, lastCall, lastDone,
                 lastResponse, fuel>>

RejectPipeline ==
  /\ callOut = Pending
  /\ callIn.content = <<>>
  /\ callOut' = sceneDrafts(callIn.content, callIn.storyProposal, callIn.numScenes)
  /\ UNCHANGED <<callIn, stories, storyHeap, scenes, sceneHeap, reqs, lastCall, lastDone,
                 lastResponse, fuel>>

NextPipeline == RunPipeline \/ RejectPipeline

SpecPipeline == InitPipeline /\ [][NextPipeline]_vars

\* ------------------------------------------------------------- the parser

\* the values of a labelled field: none, one word, two words
FieldValues == {<<>>, <<Word(1, 4)>>, <<Word(2, 4), SP, Word(3, 4)>>}

\* the text of a block: the marker and the four labelled fields, one per line
blockText(i, draft) ==
  <<CenaNColon(i), NL, LabelTitulo, SP>> \o draft.title
    \o <<NL, LabelDescricao, SP>> \o draft.description
    \o <<NL, LabelNarracao, SP>> \o draft.narration
    \o <<NL, LabelDialogo, SP>> \o draft.dialogue

RECURSIVE blocksText(_, _)
\* the text of the blocks from the i-th on, an empty line between two blocks
blocksText(blocks, i) ==
  IF i > Len(blocks) THEN <<>>
  ELSE blockText(i, blocks[i])
         \o (IF i < Len(blocks) THEN <<NL, NL>> ELSE <<>>)
         \o blocksText(blocks, i + 1)

\* the blocks of an answer in the format generateScenes asks for (openai.ts 69-79)
AnswerBlocks ==
  LET one   == [title : FieldValues, description : FieldValues,
                narration : FieldValues, dialogue : FieldValues]
      few   == [title : {<<>>, <<Word(1, 4)>>}, description : {<<Word(5, 4)>>},
                narration : {<<Word(6, 4)>>}, dialogue : {<<>>, <<Word(7, 4)>>}]
      third == SceneDraft(<<Word(2, 4), SP, Word(3, 4)>>, <<Word(5, 4)>>, <<>>, <<>>)
  IN {<<b>> : b \in one}
       \cup {<<b, c>> : b \in few, c \in few}
       \cup {<<b, c, third>> : b \in few, c \in few}

\* the orders in which one to four different field labels can follow each other
FieldOrders ==
  {f \in UNION {[1..m -> {LabelTitulo, LabelDescricao, LabelNarracao, LabelDialogo}] :
                  m \in 1..4} :
     \A i, j \in 1..Len(f) : i # j => f[i] # f[j]}

\* a block with its labelled fields in the order f, the i-th with the word i
orderedBlock(f) ==
  <<CenaNColon(1)>> \o Concat([i \in 1..Len(f) |-> <<NL, f[i], SP, Word(i, 4)>>])

\* a scene with a title line, empty or not, and lines after it: marker with or
\* without colon, then "Título:", then nothing, plain text, a description, or a
\* description that goes on over later lines
TitleTexts ==
  {<<marker, NL, LabelTitulo, SP>> \o title \o <<NL>> \o after :
     marker \in {CenaNColon(1), CenaN(1)},
     title \in {<<>>, <<Word(1, 4)>>},
     after \in {<<>>, <<Word(3, 4)>>, <<LabelDescricao, SP, Word(5, 4)>>,
                <<LabelDescricao, SP, Word(5, 4), NL, SP, Word(6, 4), NL, NL, Word(7, 4)>>}}

ParseProposals == {<<Word(9, 40)>>, <<Word(9, 12)>>}

\* processScenes' arguments; blocks are the blocks the content was written from
ParseArgs(content, blocks) ==
  [content : {content}, blocks : {blocks}, storyProposal : ParseProposals,
   numScenes : MinScenes..MaxScenes]

InitParse ==
  /\ callIn \in UNION ({ParseArgs(t, <<>>) : t \in Texts(PipelinePieces, MaxTextLen - 1)}
                         \cup {ParseArgs(blocksText(b, 1), b) : b \in AnswerBlocks}
                         \cup {ParseArgs(orderedBlock(f), <<>>) : f \in FieldOrders}
                         \cup {ParseArgs(t, <<>>) : t \in TitleTexts})
  /\ callOut = Pending
  /\ ServerAtRest

\* processScenes(content, numScenes, storyProposal)
ProcessScenes ==
  /\ callOut = Pending
  /\ callOut' = Returned(processScenes(callIn.content, callIn.numScenes,
                                       callIn.storyProposal))
  /\ UNCHANGED <<callIn, stories, storyHeap, scenes, sceneHeap, reqs, lastCall, lastDone,
                 lastResponse, fuel>>

NextParse == ProcessScenes

SpecParse == InitParse /\ [][NextParse]_vars

\* ------------------------------------------------------ the count adjustment

MaxDrafts == 4

\* the drafts a sequence under adjustment is made of
SomeDrafts ==
  {SceneDraft(<<Word(1, 4)>>, <<Word(5, 4)>>, <<Word(6, 4)>>, <<Word(7, 4)>>),
   SceneDraft(<<CenaN(1)>>, <<>>, <<>>, <<>>),
   SceneDraft(<<Word(2, 4)>>, <<Word(8, 4)>>, <<>>, <<>>)}

InitAdjust ==
  /\ callIn \in [drafts : UNION {[1..m -> SomeDrafts] : m \in 0..MaxDrafts},
                 storyProposal : ParseProposals,
                 numScenes : MinScenes..MaxScenes,
                 by : {"generateScenes", "generateStoryScenes"}]
  /\ callOut = Pending
  /\ ServerAtRest

\* the adjustment of generateScenes (openai.ts 99-118) on processedScenes
AdjustProcessed ==
  /\ callOut = Pending
  /\ callIn.by = "generateScenes"
  /\ callOut' = Returned(IF Len(callIn.drafts) < callIn.numScenes
                         THEN fillScenes(callIn.drafts, callIn.numScenes,
                                         callIn.storyProposal)
                         ELSE SubSeq(callIn.drafts, 1, callIn.numScenes))
  /\ UNCHANGED <<callIn, stories, storyHeap, scenes, sceneHeap, reqs, lastCall, lastDone,
                 lastResponse, fuel>>

\* the adjustment of generateStoryScenes (storyController.ts 201-222) on
\* generatedScenes
AdjustGenerated ==
  /\ callOut = Pending
  /\ callIn.by = "generateStoryScenes"
  /\ callOut' = Returned(adjustScenes(callIn.drafts, callIn.numScenes))
  /\ UNCHANGED <<callIn, stories, storyHeap, scenes, sceneHeap, reqs, lastCall, lastDone,
                 lastResponse, fuel>>

NextAdjust == AdjustProcessed \/ AdjustGenerated

SpecAdjust == InitAdjust /\ [][NextAdjust]_vars

\* ------------------------------------------------------- the image prompts

LongLen == 990

MaxOrder == 2

\* a scene as generateImage reads it
SceneArg(order, t, d, n, g) ==
  <<[order |-> order, title |-> t, description |-> d, narration |-> n, dialogue |-> g]>>

ImagePrompts ==
  {<<>>, <<SP>>, <<Word(1, 20)>>, <<Word(1, LongLen), SP, Word(2, 20)>>,
   <<SampleMarker>> \o Lit("aquarela", 8) \o <<Tok(" mostrando: ", 0, 12), Word(1, 20)>>}

ImageStyles ==
  {<<>>, <<SP>>, Lit("realista", 8), Lit("REALISTA", 8), Lit("xyz", 3), <<Word(7, LongLen)>>}

ImageScenes ==
  {<<>>} \cup
  {SceneArg(o, t, d, n, g) :
     o \in 0..MaxOrder,
     t \in {<<>>, <<CenaN(1)>>},
     d \in {<<>>, <<SP>>, <<Word(3, 30)>>, <<Word(3, LongLen)>>},
     n \in {<<>>, <<SP>>, <<Word(4, 30)>>},
     g \in {<<>>, <<Word(5, 30)>>}}

InitImage ==
  /\ callIn \in [prompt : ImagePrompts, style : ImageStyles, scene : ImageScenes,
                 previousImages : {<<>>, <<Url(1)>>, <<Url(1), Url(2)>>},
                 outcome : ApiOutcomes]
  /\ callOut = Pending
  /\ ServerAtRest

theRequest == imageRequest(callIn.prompt, callIn.style, callIn.scene, callIn.previousImages)

\* generateImage with a call of the image API
GenerateImageCall ==
  /\ callOut = Pending
  /\ theRequest.path # "none"
  /\ callOut' = imageResult(theRequest, callIn.outcome, Url(0))
  /\ UNCHANGED <<callIn, stories, storyHeap, scenes, sceneHeap, reqs, lastCall, lastDone,
                 lastResponse, fuel>>

\* generateImage without one: nothing to make a prompt from
GenerateImageNoCall ==
  /\ callOut = Pending
  /\ theRequest.path = "none"
  /\ callOut' = imageResult(theRequest, callIn.outcome, Url(0))
  /\ UNCHANGED <<callIn, stories, storyHeap, scenes, sceneHeap, reqs, lastCall, lastDone,
                 lastResponse, fuel>>

NextImage == GenerateImageCall \/ GenerateImageNoCall

SpecImage == InitImage /\ [][NextImage]_vars

\* ------------------------------------------------------ the style translation

\* a one-word style term
Term(k) == <<Tok(k, 0, 8)>>

\* style terms: the keys of the table in three casings, the values of the table,
\* names of properties of Object.prototype, unknown words, terms of several
\* words, and the empty term
StyleTerms ==
  {Term(k) : k \in styleMapKeys}
    \cup {Term(k) : k \in {"REALISTA", "FOTORREALISTA", "AQUARELA", "CARTOON", "ANIME",
                           "ÓLEO", "PASTEL", "PIXELART", "PINTURA"}}
    \cup {Term(k) : k \in {"Realista", "Aquarela", "Cartoon", "Óleo", "PixelArt"}}
    \cup {styleMap(k) : k \in styleMapKeys}
    \cup {Term(k) : k \in {"constructor", "CONSTRUCTOR", "Constructor", "__proto__",
                           "toString", "tostring", "xyz", "realistic",
                           "photorealistic", "PHOTOREALISTIC"}}
    \cup {<<>>, <<SP>>, <<Word(1, 5)>>, <<SP>> \o Term("aquarela"),
          Term("aquarela") \o <<SP>>, Term("aquarela") \o <<SP, Word(1, 5)>>,
          Term("realista") \o Term("cartoon")}

InitStyle ==
  /\ callIn \in [style : StyleTerms, times : {1, 2}]
  /\ callOut = Pending
  /\ ServerAtRest

\* translateStyleToEnglish(style)
TranslateOnce ==
  /\ callOut = Pending
  /\ callIn.times = 1
  /\ callOut' = translateCall(callIn.style)
  /\ UNCHANGED <<callIn, stories, storyHeap, scenes, sceneHeap, reqs, lastCall, lastDone,
                 lastResponse, fuel>>

\* translateStyleToEnglish(translateStyleToEnglish(style))
TranslateTwice ==
  /\ callOut = Pending
  /\ callIn.times = 2
  /\ callOut' = IF translateCall(callIn.style).status = "returned"
                THEN translateCall(translateCall(callIn.style).value)
                ELSE Rejected
  /\ UNCHANGED <<callIn, stories, storyHeap, scenes, sceneHeap, reqs, lastCall, lastDone,
                 lastResponse, fuel>>

NextStyle == TranslateOnce \/ TranslateTwice

SpecStyle == InitStyle /\ [][NextStyle]_vars

\* ------------------------------------------------------------ the properties

HasToken(s, k) == \E i \in 1..Len(s) : s[i].k = k

StartsWith(s, prefix) == Len(prefix) <= Len(s) /\ SubSeq(s, 1, Len(prefix)) = prefix

\* the prompt holds the whole character-consistency instruction
HasConsistency(finalPrompt) == HasToken(finalPrompt, ConsistencyInstruction[1].k)

\* the prompt holds the whole sequence instruction, naming scene number order + 1
NamesScene(finalPrompt, order) ==
  \E i \in 1..(Len(finalPrompt) - 2) :
    SubSeq(finalPrompt, i, i + 2) \in {SequenceCustom(order), SequenceScene(order)}

\* the paths of generateImage that build a prompt from a base content
BasePaths == {"custom", "description", "alternative"}

called == callOut # Pending

\* C1: for every text of the chat API and every requested count n in 3..15,
\* processScenes followed by the adjustment in generateScenes yields n drafts, the
\* adjustment in generateStoryScenes keeps them n, and generateStoryScenes
\* returns n scenes
C1_ExactCount ==
  callIn.numScenes \in MinScenes..MaxScenes =>
    /\ Len(generateScenes(callIn.content, callIn.storyProposal, callIn.numScenes))
         = callIn.numScenes
    /\ Len(adjustScenes(generateScenes(callIn.content, callIn.storyProposal,
                                       callIn.numScenes), callIn.numScenes))
         = callIn.numScenes
    /\ (called /\ callOut.status = "returned") => Len(callOut.value) = callIn.numScenes

\* generateStoryScenes returned for a text in which processScenes found more
\* scenes than were requested
C1_Witness ==
  /\ called
  /\ callOut.status = "returned"
  /\ callIn.numScenes \in MinScenes..MaxScenes
  /\ Len(processScenes(callIn.content, callIn.numScenes, callIn.storyProposal))
       > callIn.numScenes
  /\ Len(callOut.value) = callIn.numScenes

\* C2: once scenes were generated for a story, getScenesByStory (and so
\* getStory) gives as many scenes as the most recent generateStoryScenes asked for
C2_SceneCount ==
  \A i \in 1..Len(stories) :
    storyHeap[stories[i]].lastNumScenes > 0 =>
      Len(getScenesByStory(stories[i])) = storyHeap[stories[i]].lastNumScenes

\* C3: the orders of the scenes of a story are 0..k-1, each once
C3_Orders ==
  \A id \in 1..Len(storyHeap) :
    \A j \in 1..Len(getScenesByStory(id)) :
      sceneHeap[getScenesByStory(id)[j]].order = j - 1

\* C4: the prompt generateImage sends has at most 1000 characters on the custom
\* prompt path, the description path and the alternative field path
C4_PromptLimit ==
  (called /\ theRequest.path \in BasePaths) =>
    StrLen(theRequest.finalPrompt) <= MaxPromptLen

\* C5: every previous image generateImagesForStory passes for a scene is the
\* image the API returned for a scene of the same story with a smaller order
C5_PreviousImages ==
  lastCall.via = "generateImagesForStory" =>
    \A j \in 1..Len(lastCall.previousImages) :
      /\ lastCall.previousImages[j] # Placeholder
      /\ lastCall.previousImages[j][1].k = "http"
      /\ lastCall.previousImages[j][1].v \in 1..Len(sceneHeap)
      /\ sceneHeap[lastCall.previousImages[j][1].v].storyId = lastCall.storyId
      /\ sceneHeap[lastCall.previousImages[j][1].v].order < lastCall.order

\* a failed image call leaves the placeholder in its scene
FailureGivesPlaceholder ==
  lastResponse.failed => sceneHeap[lastResponse.sceneId].imageUrl = Placeholder

\* after a failed image call a run of generateImagesForStory goes on: it calls
\* the API for its next scene, or it was at its last scene and returns, or it
\* throws because a scene of the run is no longer in the store
FailureKeepsRunning ==
  (lastResponse.failed /\ lastResponse.via = "generateImagesForStory") =>
    \/ lastCall.via = "generateImagesForStory"
    \/ lastDone.op = "generateStoryScenes" /\ lastDone.status = "returned"
    \/ /\ lastDone.op = "generateStoryScenes"
       /\ lastDone.status = "rejected"
       /\ \E j \in 1..Len(lastDone.processed) : ~InSeq(scenes, lastDone.processed[j])

C7_NeverRejects ==
  called =>
    /\ callOut.status = "returned"
    /\ callOut.value # <<>>
    /\ callOut.value = IF theRequest.path # "none" /\ callIn.outcome = "url"
                       THEN Url(0) ELSE Placeholder

\* generateImage returned the placeholder after the image API threw
C7_Witness ==
  /\ called
  /\ theRequest.path = "description"
  /\ callIn.outcome = "throws"
  /\ callOut = Returned(Placeholder)

\* the instruction, which follows the style phrase and the opening words, lies
\* within the first 1000 characters; the custom prompt path has no style phrase
\* and is not cut
InstructionFits ==
  \/ theRequest.path = "custom"
  \/ Trim(callIn.style) = <<>>
  \/ StrLen(translateStyleToEnglish(callIn.style)) + 1 + StrLen(CreatePrefix)
       + StrLen(ConsistencyInstruction) <= MaxPromptLen

\* C8 (as the code has it): on the custom prompt, description and alternative
\* field paths the prompt holds the consistency instruction if and only if there
\* are previous images and the instruction lies within the first 1000
\* characters; the style sample prompt never holds it
C8_ConsistencyIffPrevious ==
  called =>
    /\ theRequest.path \in BasePaths =>
         (HasConsistency(theRequest.finalPrompt)
            <=> (callIn.previousImages # <<>> /\ InstructionFits))
    /\ theRequest.path \notin BasePaths => ~HasConsistency(theRequest.finalPrompt)

\* a prompt of the description path that was cut to 1000 characters and holds
\* the instruction
C8_Witness ==
  /\ called
  /\ theRequest.path = "description"
  /\ callIn.previousImages # <<>>
  /\ StrLen(theRequest.finalPrompt) = MaxPromptLen
  /\ HasToken(theRequest.finalPrompt, "cut")
  /\ HasConsistency(theRequest.finalPrompt)

\* C8 as stated: the prompt holds the instruction if and only if there are
\* previous images, for every base content source and after truncation
C8_Original ==
  (called /\ theRequest.path \in BasePaths) =>
    (HasConsistency(theRequest.finalPrompt) <=> callIn.previousImages # <<>>)

\* C9: with a non-empty style the prompt starts with translateStyleToEnglish(style),
\* for every base content source
C9_StylePrefix ==
  (called /\ theRequest.path \in BasePaths /\ Trim(callIn.style) # <<>>) =>
    StartsWith(theRequest.finalPrompt, translateStyleToEnglish(callIn.style))

\* C10: the prompt of every image call for a stored scene holds the sequence
\* instruction naming order + 1 when the scene's order is positive, and no
\* sequence instruction when it is 0
C10_SequenceInstruction ==
  lastCall.via # "none" =>
    IF lastCall.order > 0
    THEN NamesScene(lastCall.request.finalPrompt, lastCall.order)
    ELSE ~HasToken(lastCall.request.finalPrompt, SequenceScene(0)[1].k)

RECURSIVE FirstNonEmpty(_)
\* the first text of a list that is not empty after trimming, trimmed
FirstNonEmpty(texts) ==
  IF texts = <<>> THEN <<>>
  ELSE IF Trim(Head(texts)) # <<>> THEN Trim(Head(texts))
  ELSE FirstNonEmpty(Tail(texts))

\* the texts generateImage may build its prompt from, in the order of the spec
ContentSources ==
  IF callIn.scene = <<>> THEN <<callIn.prompt>>
  ELSE <<callIn.prompt, callIn.scene[1].description, callIn.scene[1].narration,
         callIn.scene[1].dialogue, callIn.scene[1].title>>

\* C11: the prompt is built from the first non-empty (trimmed) of the custom
\* prompt, the description, the narration, the dialogue and the title; when all
\* are empty no call of the image API is made and the placeholder is returned.
\* (A custom prompt holding the style sample marker is the base content of the
\* style sample prompt.)
C11_BaseContent ==
  called =>
    IF FirstNonEmpty(ContentSources) = <<>>
    THEN theRequest.path = "none" /\ callOut = Returned(Placeholder)
    ELSE IF Trim(callIn.prompt) # <<>>
    THEN \/ /\ theRequest.path = "sample"
            /\ HasToken(callIn.prompt, SampleMarker.k)
            /\ theRequest.finalPrompt = styleSamplePrompt(callIn.prompt, callIn.style)
         \/ /\ theRequest.path = "custom"
            /\ theRequest.finalPrompt
                 = customPrompt(FirstNonEmpty(ContentSources), callIn.scene,
                                consistencyPromptOf(callIn.previousImages))
    ELSE /\ theRequest.path \in {"description", "alternative"}
         /\ theRequest.finalPrompt
              = scenePrompt(FirstNonEmpty(ContentSources), callIn.style, callIn.scene,
                            consistencyPromptOf(callIn.previousImages))

\* a prompt built from the title of a scene whose description is blank and
\* whose narration and dialogue are empty
C11_Witness ==
  /\ called
  /\ callIn.prompt = <<>>
  /\ callIn.scene # <<>>
  /\ callIn.scene[1].description = <<SP>>
  /\ callIn.scene[1].narration = <<>>
  /\ callIn.scene[1].dialogue = <<>>
  /\ callIn.scene[1].title # <<>>
  /\ theRequest.path = "alternative"
  /\ HasToken(theRequest.finalPrompt, callIn.scene[1].title[1].k)

\* the reference lookup: the table of the spec, by lower-cased term
ReferenceTable ==
  [k \in styleMapKeys |->
     CASE k = "realista"      -> Lit("photorealistic", 14)
       [] k = "fotorrealista" -> Lit("hyper-realistic", 15)
       [] k = "aquarela"      -> Lit("watercolor painting", 19)
       [] k = "cartoon"       -> Lit("cartoon", 7)
       [] k = "anime"         -> Lit("anime style", 11)
       [] k = "óleo"          -> Lit("oil painting", 12)
       [] k = "pastel"        -> Lit("pastel drawing", 14)
       [] k = "pixelart"      -> Lit("pixel art", 9)
       [] k = "pintura"       -> Lit("painting", 8)]

ReferenceLookup(term) ==
  IF term = <<>> THEN Lit("realistic", 9)
  ELSE IF Len(term) = 1 /\ lowerCaseOf(term[1].k) \in DOMAIN ReferenceTable
  THEN ReferenceTable[lowerCaseOf(term[1].k)]
  ELSE term

\* C12: translateStyleToEnglish equals the reference lookup for every term:
\* 'realistic' for the empty term, the table entry of the lower-cased term when
\* that is a key, the term unchanged otherwise; it never throws
C12_ReferenceLookup ==
  (called /\ callIn.times = 1) => callOut = Returned(ReferenceLookup(callIn.style))

\* C13: translateStyleToEnglish(translateStyleToEnglish(s)) equals
\* translateStyleToEnglish(s) for every style term s
C13_Idempotent ==
  (called /\ callIn.times = 2) => callOut = translateCall(callIn.style)

\* a text has a scene marker when "Cena N:" occurs in it (openai.ts 134) or one
\* of its lines is "Cena N" (openai.ts 163)
HasSceneMarker(content) ==
  \/ \E i \in 1..Len(content) : content[i].k = "Cena N:"
  \/ \E i \in 1..Len(content) :
       /\ content[i].k = "Cena N"
       /\ \A j \in 1..(i - 1) : (\A q \in j..(i - 1) : content[q].k # "nl") => content[j].k = "sp"
       /\ \A j \in (i + 1)..Len(content) :
            (\A q \in (i + 1)..j : content[q].k # "nl") => content[j].k = "sp"

\* C14: processScenes returns for every text, and for a text with no scene
\* marker (the empty text too) it returns exactly numScenes drafts, the i-th
\* titled 'Cena i', each with a non-empty description and a non-empty narration
C14_DefaultFill ==
  called =>
    /\ callOut.status = "returned"
    /\ ~HasSceneMarker(callIn.content) =>
         /\ Len(callOut.value) = callIn.numScenes
         /\ \A i \in 1..Len(callOut.value) :
              /\ callOut.value[i].title = <<CenaN(i)>>
              /\ callOut.value[i].description # <<>>
              /\ callOut.value[i].narration # <<>>

\* processScenes returned the default drafts for a non-empty text without marker
C14_Witness ==
  /\ called
  /\ callIn.content # <<>>
  /\ \E i \in 1..Len(callIn.content) : callIn.content[i].k = "Cena N"
  /\ ~HasSceneMarker(callIn.content)
  /\ Len(callOut.value) = callIn.numScenes
  /\ callOut.value[callIn.numScenes].title = <<CenaN(callIn.numScenes)>>

\* C15: for a text of k well-formed blocks (marker, then title, description,
\* narration, dialogue, each labelled and on its own line), processScenes returns
\* k drafts, in the order of the blocks, with the field values the blocks gave
C15_RoundTrip ==
  (called /\ callIn.blocks # <<>>) => callOut = Returned(callIn.blocks)

\* C16: padding an empty sequence of drafts to n gives n drafts, the i-th titled
\* 'Cena i', each with a non-empty description and a non-empty narration
C16_PadFromEmpty ==
  (called /\ callIn.drafts = <<>>) =>
    /\ Len(callOut.value) = callIn.numScenes
    /\ \A i \in 1..Len(callOut.value) :
         /\ callOut.value[i].title = <<CenaN(i)>>
         /\ callOut.value[i].description # <<>>
         /\ callOut.value[i].narration # <<>>

\* the padding loop of generateStoryScenes ran from an empty sequence: the first
\* draft is the placeholder and the second continues it
C16_Witness ==
  /\ called
  /\ callIn.drafts = <<>>
  /\ callIn.by = "generateStoryScenes"
  /\ callOut.value[1].description = Lit("Nova cena", 9)
  /\ callOut.value[2].description = Lit("Continuação: ", 13) \o Lit("Nova cena", 9)
  /\ callOut.value[callIn.numScenes].narration = Lit("Narração da cena", 16)

\* C17: when processScenes finds k drafts, 1 <= k < n, every draft the pipeline
\* appends has the description "Continuação: " followed by the description of
\* the draft before it, the narration and the dialogue of the draft before it,
\* and the title 'Cena i' of its position i
C17_SyntheticDrafts ==
  LET k == Len(processScenes(callIn.content, callIn.numScenes, callIn.storyProposal))
  IN (called /\ callOut.status = "returned" /\ callIn.numScenes \in MinScenes..MaxScenes
        /\ 1 <= k /\ k < callIn.numScenes) =>
       \A i \in (k + 1)..callIn.numScenes :
         /\ callOut.value[i].title = <<CenaN(i)>>
         /\ callOut.value[i].description
              = Lit("Continuação: ", 13) \o callOut.value[i - 1].description
         /\ callOut.value[i].narration = callOut.value[i - 1].narration
         /\ callOut.value[i].dialogue = callOut.value[i - 1].dialogue

\* the draft a scene was created from
draftOf(scene) ==
  SceneDraft(scene.title, scene.description, scene.narration, scene.dialogue)

\* C18: when processScenes finds more than n drafts, the pipeline's result is the
\* first n of them, in their order and with their four fields unchanged
C18_Truncation ==
  LET parsed == processScenes(callIn.content,
                              Min(Max(callIn.numScenes, MinScenes), MaxScenes),
                              callIn.storyProposal)
  IN (called /\ callOut.status = "returned" /\ Len(parsed) > callIn.numScenes) =>
       /\ Len(callOut.value) = callIn.numScenes
       /\ \A i \in 1..callIn.numScenes : draftOf(callOut.value[i]) = parsed[i]

\* the pipeline returned for a text with four scenes, the fourth unlike the
\* first, when three were asked for
C18_Witness ==
  LET parsed == processScenes(callIn.content, callIn.numScenes, callIn.storyProposal)
  IN /\ called
     /\ callOut.status = "returned"
     /\ callIn.numScenes = MinScenes
     /\ Len(parsed) = MinScenes + 1
     /\ parsed[MinScenes + 1] # parsed[1]
     /\ Len(callOut.value) = MinScenes
     /\ draftOf(callOut.value[1]) = parsed[1]

\* the ids in the scene store of the scenes of other stories than storyId
ScenesOfOthers(store, heap, storyId) ==
  SelectSeq(store, LAMBDA id : heap[id].storyId # storyId)

\* what deleteStory(storyId) leaves behind
Deleted(storyId) ==
  /\ ~InSeq(stories', storyId)
  /\ \A i \in 1..Len(scenes') : sceneHeap'[scenes'[i]].storyId # storyId
  /\ stories' = SelectSeq(stories, LAMBDA other : other # storyId)
  /\ \A other \in 1..Len(storyHeap) : other # storyId => storyHeap'[other] = storyHeap[other]
  /\ ScenesOfOthers(scenes', sceneHeap', storyId) = ScenesOfOthers(scenes, sceneHeap, storyId)
  /\ \A i \in 1..Len(scenes) :
       sceneHeap[scenes[i]].storyId # storyId => sceneHeap'[scenes[i]] = sceneHeap[scenes[i]]

\* C19: after deleteStory(s) for a story s of the store, s is no longer in the
\* story store, no scene of the scene store has the storyId s, and the other
\* stories and the scenes of the other stories are as they were
C19_DeleteStory ==
  [][\A s \in 1..Len(storyHeap) : (InSeq(stories, s) /\ DeleteStory(s)) => Deleted(s)]_vars

\* story 1 was deleted with its scenes; story 2 and its scenes are in the stores
C19_Witness ==
  /\ stories = <<2>>
  /\ Len(storyHeap) = 2
  /\ \E id \in 1..Len(sceneHeap) : sceneHeap[id].storyId = 1
  /\ scenes # <<>>
  /\ \A i \in 1..Len(scenes) : sceneHeap[scenes[i]].storyId = 2

\* the value is a number, or a string that is a number, in 3..15
NumberInRange(value) ==
  \/ /\ value.t = "number"
     /\ value.whole * 10 + value.tenths >= MinScenes * 10
     /\ value.whole * 10 + value.tenths <= MaxScenes * 10
  \/ /\ value.t = "string"
     /\ Len(Trim(value.s)) = 1
     /\ Trim(value.s)[1].k = "num"
     /\ Trim(value.s)[1].v \in MinScenes..MaxScenes

\* C20: a request for scenes of a story of the store whose numScenes is not a
\* number, or is not in 3..15, is answered with the validation error before
\* generateStoryScenes runs: no request for a text is made, no scene is created,
\* the stories are unchanged
C20_Validation ==
  [][\A id \in StoryIdArgs, value \in NumScenesArgs :
       (InSeq(stories, id) /\ GenerateStoryScenes(id, value) /\ ~NumberInRange(value)) =>
         /\ lastDone'.status = "invalid"
         /\ UNCHANGED <<reqs, stories, storyHeap, scenes, sceneHeap>>]_vars

\* C21: a failure of the text generation is not recovered: when generateScenes
\* rejects, generateStoryScenes rejects, is not run again, creates no scene and
\* leaves the story as it was; when generateStoryProposal rejects, createStory
\* stores no story
C21_TextFailurePropagates ==
  [][/\ \A slot \in 1..MaxInFlight :
          ScenesTextFails(slot) =>
            /\ lastDone'.op = "generateStoryScenes"
            /\ lastDone'.status = "rejected"
            /\ lastDone'.value = <<>>
            /\ reqs'[slot].pc = "idle"
            /\ \A other \in 1..MaxInFlight : other # slot => reqs'[other] = reqs[other]
            /\ sceneHeap' = sceneHeap
            /\ scenes' = scenes
            /\ storyHeap' = storyHeap
            /\ stories' = stories
     /\ CreateStoryFails => (stories' = stories /\ storyHeap' = storyHeap)]_vars

\* generateStoryScenes just rejected for a story of the store that has no scene,
\* while another request for it still waits for its text
C21_Witness ==
  /\ lastDone.op = "generateStoryScenes"
  /\ lastDone.status = "rejected"
  /\ InSeq(stories, lastDone.storyId)
  /\ getScenesByStory(lastDone.storyId) = <<>>
  /\ storyHeap[lastDone.storyId].scenes = <<>>
  /\ \E slot \in 1..MaxInFlight : reqs[slot].pc = "text"

\* C22: a controller operation given an id that names no story or scene throws
\* the not-found error and leaves both stores as they were
C22_NotFound ==
  [][/\ \A id \in StoryIdArgs :
          (~InSeq(stories, id)
             /\ \/ DeleteStory(id)
                \/ \E n \in NumScenesArgs :
                     ~invalidNumScenes(parseInt(n)) /\ GenerateStoryScenes(id, n)) =>
            /\ lastDone'.status = "rejected"
            /\ UNCHANGED <<stories, storyHeap, scenes, sceneHeap>>
     /\ \A id \in StoryIdArgs :
          (~InSeq(stories, id) /\ (GetStory(id) \/ \E style \in Styles : SetStoryStyle(id, style)))
            => UNCHANGED <<stories, storyHeap, scenes, sceneHeap>>
     /\ \A id \in SceneIdArgs :
          (~InSeq(scenes, id)
             /\ \/ \E u \in SceneUpdates : UpdateScene(id, u)
                \/ \E c \in CustomPrompts : RegenerateImage(id, c))
            => UNCHANGED <<stories, storyHeap, scenes, sceneHeap, reqs>>]_vars

\* C23: processScenes tries its three strategies in order: the drafts of the
\* block split when there is one at least; the drafts of the line scan only when
\* the block split found none; the default drafts only when both found none
C23_FirstStrategyWins ==
  called =>
    /\ blockScenes(callIn.content) # <<>> => callOut.value = blockScenes(callIn.content)
    /\ (blockScenes(callIn.content) = <<>> /\ lineScenes(callIn.content) # <<>>) =>
         callOut.value = lineScenes(callIn.content)
    /\ (blockScenes(callIn.content) = <<>> /\ lineScenes(callIn.content) = <<>>) =>
         callOut.value = defaultScenes(callIn.numScenes, callIn.storyProposal)

\* processScenes returned the drafts of the block split for a text in which the
\* line scan finds other drafts
C23_Witness ==
  /\ called
  /\ blockScenes(callIn.content) # <<>>
  /\ lineScenes(callIn.content) # <<>>
  /\ lineScenes(callIn.content) # blockScenes(callIn.content)
  /\ callOut.value = blockScenes(callIn.content)

LabelKinds == {"Título:", "Descrição:", "Narração:", "Diálogo:"}

\* the text between the first label of the kind `label` and the next field label
\* or the end of the block, trimmed; empty when the block has no such label
FieldRegion(block, label) ==
  LET p == FirstFrom(block, 1, LAMBDA t : t.k = label)
      b == FirstFrom(block, p + 1, LAMBDA t : t.k \in LabelKinds)
  IN IF p > Len(block) THEN <<>> ELSE Trim(SubSeq(block, p + 1, b - 1))

\* no field label occurs twice in the block
LabelsOnce(block) ==
  \A i, j \in 1..Len(block) : (i # j /\ block[i].k \in LabelKinds) => block[i].k # block[j].k

\* C24: in the block split, whatever the order of the labels in a block, the
\* description, the narration and the dialogue of its draft are the text between
\* their own label and the next field label or the end of the block, and empty
\* when the block has no such label
C24_FieldRegions ==
  LET sceneBlocks == SplitOn(callIn.content, IsSceneMarker)
  IN (called /\ Len(sceneBlocks) > 1) =>
       \A i \in 1..(Len(sceneBlocks) - 1) :
         LabelsOnce(sceneBlocks[i + 1]) =>
           /\ callOut.value[i].description = FieldRegion(Trim(sceneBlocks[i + 1]), "Descrição:")
           /\ callOut.value[i].narration = FieldRegion(Trim(sceneBlocks[i + 1]), "Narração:")
           /\ callOut.value[i].dialogue = FieldRegion(Trim(sceneBlocks[i + 1]), "Diálogo:")

\* the text on the line of the first title label of a text, after the label
TitleLine(text) ==
  LET p == FirstFrom(text, 1, LAMBDA t : t.k = "Título:")
      b == FirstFrom(text, p + 1, LAMBDA t : t.k = "nl")
  IN IF p > Len(text) THEN <<>> ELSE Trim(SubSeq(text, p + 1, b - 1))

\* the texts that stand after a title label on its line, in the lines of a text
TitleLines(text) ==
  LET lines == SplitOn(text, LAMBDA t : t.k = "nl")
  IN {Trim(Tail(Trim(lines[i]))) :
        i \in {j \in 1..Len(lines) : Trim(lines[j]) # <<>> /\ Trim(lines[j])[1].k = "Título:"}}

\* C25: the title is the text on the line of the title label, in both strategies;
\* a title label with nothing on its line gives the default title 'Cena i', not
\* text of a later line
C25_TitleSingleLine ==
  LET sceneBlocks == SplitOn(callIn.content, IsSceneMarker)
  IN called =>
       /\ Len(sceneBlocks) > 1 =>
            \A i \in 1..(Len(sceneBlocks) - 1) :
              callOut.value[i].title
                = IF TitleLine(Trim(sceneBlocks[i + 1])) # <<>>
                  THEN TitleLine(Trim(sceneBlocks[i + 1]))
                  ELSE <<CenaN(i)>>
       /\ (Len(sceneBlocks) = 1 /\ HasSceneMarker(callIn.content)) =>
            \A i \in 1..Len(callOut.value) :
              \/ callOut.value[i].title \in TitleLines(callIn.content) \ {<<>>}
              \/ /\ Len(callOut.value[i].title) = 1
                 /\ callOut.value[i].title[1].k = "Cena N"

\* the line scan's variables after its first j lines
AfterLines(content, j) ==
  lineLoop(LineState(<<>>, <<>>, "null"),
           SubSeq(SplitOn(content, LAMBDA t : t.k = "nl"), 1, j), 1)

IsMarkerLine(line) == Len(Trim(line)) = 1 /\ Trim(line)[1].k \in {"Cena N:", "Cena N"}

IsLabelLine(line) == Trim(line) # <<>> /\ Trim(line)[1].k \in LabelKinds

\* C26: in the line scan the drafts are as many as the marker lines; a marker
\* line closes the open draft, opens one with empty fields and clears the
\* cursor; a line before the first marker, and a line without label read with
\* the cursor cleared, change nothing; a non-empty line without label read with
\* the cursor on description, narration or dialogue is appended to that field
\* after a line end
C26_LineScan ==
  LET lines == SplitOn(callIn.content, LAMBDA t : t.k = "nl")
      step(j) ==
        LET st   == AfterLines(callIn.content, j - 1)
            nx   == AfterLines(callIn.content, j)
            line == Trim(lines[j])
            cur  == st.currentScene[1]
            new  == nx.currentScene[1]
        IN /\ IsMarkerLine(line) =>
                /\ nx.scenes = st.scenes \o st.currentScene
                /\ nx.currentScene = <<SceneDraft(<<CenaN(line[1].v)>>, <<>>, <<>>, <<>>)>>
                /\ nx.currentField = "null"
           /\ (~IsMarkerLine(line) /\ st.currentScene = <<>>) => nx = st
           /\ (~IsMarkerLine(line) /\ ~IsLabelLine(line) /\ st.currentField = "null") => nx = st
           /\ (~IsMarkerLine(line) /\ ~IsLabelLine(line) /\ line # <<>>
                 /\ st.currentField \in {"description", "narration", "dialogue"}) =>
                /\ nx.scenes = st.scenes
                /\ nx.currentField = st.currentField
                /\ new.title = cur.title
                /\ new.description
                     = IF st.currentField # "description" THEN cur.description
                       ELSE IF cur.description = <<>> THEN line
                       ELSE cur.description \o <<NL>> \o line
                /\ new.narration
                     = IF st.currentField # "narration" THEN cur.narration
                       ELSE IF cur.narration = <<>> THEN line
                       ELSE cur.narration \o <<NL>> \o line
                /\ new.dialogue
                     = IF st.currentField # "dialogue" THEN cur.dialogue
                       ELSE IF cur.dialogue = <<>> THEN line
                       ELSE cur.dialogue \o <<NL>> \o line
  IN (called /\ blockScenes(callIn.content) = <<>> /\ lineScenes(callIn.content) # <<>>) =>
       /\ Len(callOut.value) = Cardinality({j \in 1..Len(lines) : IsMarkerLine(lines[j])})
       /\ \A j \in 1..Len(lines) : step(j)

\* the line scan returned one draft whose description goes over several lines
C26_Witness ==
  /\ called
  /\ blockScenes(callIn.content) = <<>>
  /\ Len(callOut.value) = 1
  /\ \E i \in 2..(Len(callOut.value[1].description) - 1) :
       callOut.value[1].description[i] = NL

\* the scenes of a run are in ascending order
RunAscending(storyScenes, heap) ==
  \A a, b \in 1..Len(storyScenes) :
    a < b => heap[storyScenes[a]].order <= heap[storyScenes[b]].order

\* the generateImagesForStory run in `slot` issues a call of the image API in this step
RunIssuesCall(slot) ==
  /\ reqs'[slot] # reqs[slot]
  /\ reqs'[slot].op = "scenes"
  /\ reqs'[slot].pc = "img"

\* C27: within one generateImagesForStory run the image calls are sequential and
\* in ascending order: a call is issued for the scene the run stands at, when the
\* run starts or when the answer to its previous call is handled; every scene of
\* the run with a smaller order is before it in the run and has its image or the
\* placeholder by then; and the list the run returns is in ascending order
C27_SequentialImages ==
  [][/\ \A slot \in 1..MaxInFlight :
          RunIssuesCall(slot) =>
            LET r  == reqs[slot]
                r1 == reqs'[slot]
            IN /\ lastCall'.via = "generateImagesForStory"
               /\ lastCall'.sceneId = r1.storyScenes[r1.i]
               /\ r.pc = "img" =>
                    /\ r.op = "scenes"
                    /\ r1.storyScenes = r.storyScenes
                    /\ r1.i > r.i
                    /\ lastResponse'.via = "generateImagesForStory"
                    /\ lastResponse'.sceneId = r.storyScenes[r.i]
               /\ RunAscending(r1.storyScenes, sceneHeap')
               /\ \A j \in 1..Len(r1.storyScenes) :
                    sceneHeap'[r1.storyScenes[j]].order < lastCall'.order =>
                      /\ j < r1.i
                      /\ sceneHeap'[r1.storyScenes[j]].imageUrl # <<>>
               /\ \A j \in 1..(r1.i - 1) :
                    /\ sceneHeap'[r1.storyScenes[j]].imageUrl # <<>>
                    /\ (r.pc = "img" /\ j > r.i) =>
                         sceneHeap'[r1.storyScenes[j]].imageUrl = Placeholder
     /\ (lastDone'.op = "generateStoryScenes" /\ lastDone'.status = "returned") =>
          RunAscending(lastDone'.processed, sceneHeap')
     /\ lastCall'.via = "generateImagesForStory" =>
          \E slot \in 1..MaxInFlight : RunIssuesCall(slot)]_vars

\* a run issued the call for its second or a later scene right after the answer
\* to the call for the scene before it
C27_Witness ==
  /\ lastCall.via = "generateImagesForStory"
  /\ lastResponse.via = "generateImagesForStory"
  /\ \E slot \in 1..MaxInFlight :
       /\ reqs[slot].op = "scenes"
       /\ reqs[slot].pc = "img"
       /\ reqs[slot].i >= 2
       /\ lastCall.sceneId = reqs[slot].storyScenes[reqs[slot].i]
       /\ lastResponse.sceneId = reqs[slot].storyScenes[reqs[slot].i - 1]
       /\ sceneHeap[lastCall.sceneId].order > sceneHeap[lastResponse.sceneId].order

\* the image URLs of the stored scenes of a story before `order` that have an
\* image: neither empty nor the placeholder
ValidReferences(storyId, order) ==
  {sceneHeap[scenes[i]].imageUrl :
     i \in {k \in 1..Len(scenes) :
              /\ sceneHeap[scenes[k]].storyId = storyId
              /\ sceneHeap[scenes[k]].order < order
              /\ sceneHeap[scenes[k]].imageUrl \notin {<<>>, Placeholder}}}

\* C28: on every call path, the regenerate-image route and
\* generateImagesForStory, the previous images of a call hold no placeholder and
\* no empty URL, and are exactly the images of the scenes of the same story with
\* an order strictly less than the order of the scene the call is for
C28_NoPlaceholderReferences ==
  lastCall.via # "none" =>
    /\ \A j \in 1..Len(lastCall.previousImages) :
         lastCall.previousImages[j] \notin {<<>>, Placeholder}
    /\ {lastCall.previousImages[j] : j \in 1..Len(lastCall.previousImages)}
         = ValidReferences(lastCall.storyId, lastCall.order)

\* C29: every scene in the scene store belongs to a story in the story store,
\* also when deleteStory runs while a generateStoryScenes or
\* generateImagesForStory call for the story is suspended at an await
C29_ReferentialIntegrity ==
  \A i \in 1..Len(scenes) : InSeq(stories, sceneHeap[scenes[i]].storyId)

\* a story's selected sample, when set, is one of its visual samples
SelectedIsASample(story) ==
  story.selectedVisualSample # <<>> =>
    \E j \in 1..Len(story.visualSamples) :
      story.visualSamples[j] = story.selectedVisualSample

\* C30: a story's selectedVisualSample, when set, is one of the records in its
\* visualSamples, also after generateVisualSamples ran again following a
\* selection; and a selectVisualSample with an index outside
\* 0..len(visualSamples)-1 fails and leaves selectedVisualSample unchanged
C30_SelectedSample ==
  [][/\ \A i \in 1..Len(stories) : SelectedIsASample(storyHeap'[stories[i]])
     /\ \A id \in StoryIdArgs, k \in SampleIndexArgs :
          (/\ SelectVisualSample(id, k)
           /\ InSeq(stories, id)
           /\ k \notin 0..(Len(storyHeap[id].visualSamples) - 1)) =>
            /\ lastDone'.status \in {"invalid", "rejected"}
            /\ storyHeap'[id].selectedVisualSample = storyHeap[id].selectedVisualSample]_vars

====
